---- MODULE Spec2Model ----
(***************************************************************************)
(* VULX scan engine: the queue worker and finding reconciler               *)
(* (apps/scan-engine/src/worker.py) and the scan orchestrator              *)
(* (apps/scan-engine/src/engines/orchestrator.py).                         *)
(*                                                                         *)
(* The worker part models the relational store as the committed contents   *)
(* of the "Scan" and "Finding" tables.  Every worker holds one psycopg2    *)
(* connection per job; psycopg2 connections are transactional (autocommit  *)
(* off), so statements become visible to other connections at commit, and  *)
(* a statement that raises leaves the transaction aborted: every later     *)
(* statement on that connection raises too, and close() discards what was  *)
(* not committed.                                                          *)
(***************************************************************************)
EXTENDS Integers, Sequences, FiniteSets, TLC

(***************************************************************************)
(* Bounds of the model.                                                    *)
(***************************************************************************)
NumScans == 2
NumWorkers == 2
MaxJobs == 2
MaxTriage == 1
MaxFindings == 2
MaxEngineFindings == 2
MaxDedupLen == 3
MaxCalls == 2
MaxOperations == 2
MaxDuration == 2
NumCallbacks == 2

Scans == 1..NumScans
Workers == 1..NumWorkers
Callbacks == 1..NumCallbacks

(***************************************************************************)
(* Data domains.                                                           *)
(***************************************************************************)
NULL == "NULL"
Projects == {NULL, "P1", "P2"}
Environments == {"PRODUCTION", "STAGING"}
ScanStatuses == {"QUEUED", "PROCESSING", "COMPLETED", "FAILED"}
FindingStatuses == {"OPEN", "IN_PROGRESS", "FIXED", "FALSE_POSITIVE", "ACCEPTED"}

\* resolutionNotes: SQL NULL is the empty sequence, a text is a non-empty
\* sequence of tokens (so that a prefix is something a formula can test).
NullNotes == <<>>

\* str.upper() on the HTTP methods (worker.py:113, worker.py:133).
Upper(m) ==
    CASE m = "get" -> "GET"
      [] m = "post" -> "POST"
      [] m = "critical" -> "CRITICAL"
      [] m = "high" -> "HIGH"
      [] m = "medium" -> "MEDIUM"
      [] m = "low" -> "LOW"
      [] OTHER -> m

\* A finding the static analyzer emits, reduced to the columns reconciliation
\* reads: <<type, method, endpoint>>.  OWASPScanner.scan passes method.upper()
\* to every check (owasp_scanner.py:128); spec-level checks use '*'.
FindingDicts == { <<"XSS", "GET", "/search">>, <<"SQL_INJECTION", "POST", "/login">> }

RECURSIVE SeqsUpTo(_, _)
SeqsUpTo(S, n) ==
    IF n = 0 THEN { <<>> }
    ELSE LET shorter == SeqsUpTo(S, n - 1)
         IN  shorter \cup { Append(s, x) : s \in shorter, x \in S }

\* specContent of a job: either a document parse_openapi_spec rejects, or a
\* document for which OWASPScanner(spec).scan() returns the given findings.
SpecContents ==
    { [valid |-> FALSE, findings |-> <<>>] } \cup
    { [valid |-> TRUE, findings |-> fs] : fs \in SeqsUpTo(FindingDicts, MaxFindings) }

NoJob == [scanId |-> 0, specContent |-> [valid |-> FALSE, findings |-> <<>>]]

VARIABLES
    \* -- the store, the queue and the workers (worker.py)
    scanRows,          \* committed "Scan" table: id -> [projectId, environment, status]
    findingRows,       \* committed "Finding" table, in insertion order (id = position)
    queue,             \* the list vulx:scan-queue
    clock,             \* the database clock NOW() reads
    pc,                \* per worker: position in run_worker / process_scan
    job,               \* per worker: the job popped
    previous_findings, \* per worker: the state map of process_scan
    pending,           \* per worker: rows inserted in the open transaction
    txAborted,         \* per worker: the open transaction is in the aborted state
    conn,              \* per worker: "open" while a connection it opened is not closed
    nJobs,             \* jobs enqueued so far
    nTriage,           \* triage operations so far
    nSkipped,          \* queue messages run_worker has logged and skipped
    \* -- one call of ScanOrchestrator.scan (orchestrator.py)
    target,            \* ScanTarget: [openapi_spec_url, openapi_spec_content]
    scan_type,         \* ScanType
    auth_config,       \* NULL or the configured authentication method
    phase,             \* position in scan()
    auth_context,      \* NULL or AuthContext.method of the context authenticate returned
    auth_method,       \* local auth_method
    all_findings,      \* local all_findings
    engines_used,      \* local engines_used
    invoked,           \* engines whose scan() was called, in call order
    in_flight,         \* engines whose scan() was called and has not returned
    failed_engines,    \* engines whose adapter caught an exception of its run
    parsed_findings,   \* every finding an engine parsed from its tool's output
    status_log,        \* <<status, progress>> of every callback notification
    callback_log,      \* per registered callback, the calls it received
    raising_callbacks, \* the registered callbacks that raise when called
    result,            \* the ScanResult returned, NoResult before
    \* -- one call of ScanOrchestrator._deduplicate_findings
    dedupInput,        \* the argument, findings
    unique,            \* the list returned
    deduplicated,      \* the call has returned
    \* -- enrichment of one finding: ComplianceMapper and RemediationEngine
    enriched,          \* the finding: [cwe_id, owasp_category, type]
    enabled_frameworks,\* ComplianceMapper.enabled_frameworks
    CWE_MAPPINGS,      \* ComplianceMapper.CWE_MAPPINGS
    OWASP_MAPPINGS,    \* ComplianceMapper.OWASP_MAPPINGS
    map_results,       \* what the map_finding calls so far returned
    remediation_types, \* the type tags the get_remediation calls so far used
    \* -- one OWASPScanner(spec).scan() (scanners/owasp_scanner.py)
    openapi,           \* the document: [security, schemes, operations], the operations
                       \* in the order scan() iterates over paths and methods
    static_findings,   \* self.findings, the BOLA check's part of it
    cursor,            \* how many entries of the document scan() has handled
    static_done,       \* scan() has run its spec-level checks and returned
    \* -- one run of the agent's scan command (agent/vulx_agent/__main__.py)
    fail_on,           \* --fail-on
    upload_configured, \* api_key and project_id are both given
    agent_pc,          \* "start", "scanned", "reported", "exited"
    agent_result,      \* what scanner.scan() returned: [status, findings]
    upload_state,      \* "none", "uploaded", "failed"
    exit_code,         \* the code of sys.exit, NULL while running
    \* -- one ZAPEngine.scan (engines/zap_engine.py)
    zap_config,        \* [auth, spec, ajax_spider]: the arguments and ZAPConfig
    zap_pc,            \* the step scan() is at
    zap_calls,         \* the steps issued so far, in order
    zap_clock,         \* polls slept through since the active scan started
    zap_scan_state,    \* the active scan: "none", "running", "completed", "stopped"
    zap_alerts,        \* the alerts ZAP has raised so far (their risk)
    zap_error,         \* an exception reached scan()'s except clause
    zap_returned,      \* the findings scan() returned, NULL before
    \* -- one NucleiEngine.scan or SchemathesisEngine.scan
    adapter_config,    \* [engine, auth, spec]: the adapter and its arguments
    adapter_pc,        \* "start", "build", "launch", "wait", "parse", "returned"
    temp_file,         \* the temporary results file exists
    tool_process,      \* the external tool: "none", "running", "exited"
    auth_applied,      \* the auth headers were added to the command
    adapter_failure,   \* why scan() ended in an except clause, NULL if not
    adapter_returned   \* the findings scan() returned, NULL before

workerVars == <<scanRows, findingRows, queue, clock, pc, job, previous_findings,
                pending, txAborted, conn, nJobs, nTriage, nSkipped>>

orchVars == <<target, scan_type, auth_config, phase, auth_context, auth_method,
              all_findings, parsed_findings, engines_used, invoked, in_flight, failed_engines,
              status_log, callback_log, raising_callbacks, result>>

dedupVars == <<dedupInput, unique, deduplicated>>

enrichVars == <<enriched, enabled_frameworks, CWE_MAPPINGS, OWASP_MAPPINGS,
               map_results, remediation_types>>

staticVars == <<openapi, static_findings, cursor, static_done>>

agentVars == <<fail_on, upload_configured, agent_pc, agent_result, upload_state,
              exit_code>>

zapVars == <<zap_config, zap_pc, zap_calls, zap_clock, zap_scan_state, zap_alerts,
            zap_error, zap_returned>>

adapterVars == <<adapter_config, adapter_pc, temp_file, tool_process,
                auth_applied, adapter_failure, adapter_returned>>

vars == <<workerVars, orchVars, dedupVars, enrichVars, staticVars, agentVars,
          zapVars, adapterVars>>

(***************************************************************************)
(* Pure parts of process_scan.                                             *)
(***************************************************************************)

\* f_key = (finding['type'], finding['method'].upper(), finding['endpoint'])
NaturalKey(f) == <<f[1], Upper(f[2]), f[3]>>

\* Mutant of EligibleRows: the status = 'COMPLETED' condition is missing.
EligibleRowsAnyStatus(project_id, environment) ==
    { i \in DOMAIN findingRows :
        LET s == scanRows[findingRows[i].scanId]
        IN  /\ s.projectId = project_id
            /\ s.environment = environment }

\* The WHERE clause of the prior-state query: rows of COMPLETED scans of the
\* same project and environment.
EligibleRows(project_id, environment) ==
    { i \in DOMAIN findingRows :
        LET s == scanRows[findingRows[i].scanId]
        IN  /\ s.projectId = project_id
            /\ s.environment = environment
            /\ s.status = "COMPLETED" }

\* SELECT DISTINCT ON (type, method, endpoint) ... ORDER BY ..., "createdAt" DESC:
\* for each stored (type, method, endpoint) a row with the greatest createdAt.
\* Rows that tie on createdAt are all candidates (PostgreSQL picks any of them).
DistinctOnLatest(rows) ==
    { i \in rows :
        \A j \in rows :
            findingRows[j].finding = findingRows[i].finding
                => findingRows[j].createdAt <= findingRows[i].createdAt }

PrevEntry(i) ==
    [id |-> i,
     status |-> findingRows[i].status,
     resolutionNotes |-> findingRows[i].resolutionNotes,
     assignedTo |-> findingRows[i].assignedTo,
     scanId |-> findingRows[i].scanId]

\* The state maps the fetch loop can build: previous_findings[key] = {...} for
\* every row the query returned, keyed by the normalized natural key.
StateMaps(project_id, environment) ==
    LET cand == DistinctOnLatest(EligibleRows(project_id, environment))
        dom == { NaturalKey(findingRows[i].finding) : i \in cand }
    IN  { [k \in dom |-> PrevEntry(m[k])] :
            m \in { c \in [dom -> cand] :
                      \A k \in dom : NaturalKey(findingRows[c[k]].finding) = k } }

EmptyMap == [k \in {} |-> 0]

FindingRow(scan_id, f, status, notes, assignee, now) ==
    [scanId |-> scan_id, finding |-> f, status |-> status,
     resolutionNotes |-> notes, assignedTo |-> assignee, createdAt |-> now]

\* f"REGRESSION: Previously fixed, found again in scan. Original notes:
\*   {prev['resolutionNotes'] or 'None'}"
RegressionNotes(notes) ==
    <<"REGRESSION:">> \o (IF notes = NullNotes THEN <<"None">> ELSE notes)

\* Mutant of InsertRegression: the assignee is not carried over.
InsertRegressionUnassigned(scan_id, f, prev, now) ==
    << FindingRow(scan_id, f, "OPEN", RegressionNotes(prev.resolutionNotes),
                  NULL, now) >>

\* The INSERT of a FIXED finding found again.
InsertRegression(scan_id, f, prev, now) ==
    << FindingRow(scan_id, f, "OPEN", RegressionNotes(prev.resolutionNotes),
                  prev.assignedTo, now) >>

\* Mutant of SkipSuppressed: the suppressed finding is linked like an open one.
SkipSuppressedInserts(scan_id, f, prev, now) ==
    << FindingRow(scan_id, f, prev.status, prev.resolutionNotes,
                  prev.assignedTo, now) >>

\* FALSE_POSITIVE / ACCEPTED: continue, nothing is inserted.
SkipSuppressed(scan_id, f, prev, now) == << >>

\* Mutant of InsertLinked: the naive insert, which forgets the inherited state.
InsertLinkedFresh(scan_id, f, prev, now) ==
    << FindingRow(scan_id, f, "OPEN", NullNotes, NULL, now) >>

\* OPEN or IN_PROGRESS: link to the current scan with inherited state.
InsertLinked(scan_id, f, prev, now) ==
    << FindingRow(scan_id, f, prev.status, prev.resolutionNotes,
                  prev.assignedTo, now) >>

\* Mutant of InsertNew: the status column is left out of the INSERT.
InsertNewNoStatus(scan_id, f, now) ==
    << FindingRow(scan_id, f, NULL, NullNotes, NULL, now) >>

\* New finding: fresh entry.
InsertNew(scan_id, f, now) ==
    << FindingRow(scan_id, f, "OPEN", NullNotes, NULL, now) >>

\* One iteration of "for finding in findings": the rows it inserts.
ReconcileFinding(scan_id, f, prevMap, now) ==
    LET f_key == NaturalKey(f)
    IN  IF f_key \in DOMAIN prevMap
        THEN LET prev == prevMap[f_key]
             IN  IF prev.status = "FIXED"
                 THEN InsertRegression(scan_id, f, prev, now)
                 ELSE IF prev.status \in {"FALSE_POSITIVE", "ACCEPTED"}
                 THEN SkipSuppressed(scan_id, f, prev, now)
                 ELSE InsertLinked(scan_id, f, prev, now)
        ELSE InsertNew(scan_id, f, now)

RECURSIVE ReconcileAll(_, _, _, _)
ReconcileAll(scan_id, findings, prevMap, now) ==
    IF findings = << >> THEN << >>
    ELSE ReconcileFinding(scan_id, Head(findings), prevMap, now)
            \o ReconcileAll(scan_id, Tail(findings), prevMap, now)

(***************************************************************************)
(* Initial state: the Scan rows exist and are QUEUED, nothing else does.   *)
(***************************************************************************)
WorkerInit ==
    /\ scanRows \in { r \in [Scans -> [projectId : Projects,
                                        environment : Environments,
                                        status : {"QUEUED"}]] :
                         r[1].projectId = "P1" /\ r[1].environment = "PRODUCTION" }
    /\ findingRows = << >>
    /\ queue = << >>
    /\ clock = 1
    /\ pc = [w \in Workers |-> "idle"]
    /\ job = [w \in Workers |-> NoJob]
    /\ previous_findings = [w \in Workers |-> EmptyMap]
    /\ pending = [w \in Workers |-> << >>]
    /\ txAborted = [w \in Workers |-> FALSE]
    /\ conn = [w \in Workers |-> "none"]
    /\ nJobs = 0
    /\ nTriage = 0
    /\ nSkipped = 0

(***************************************************************************)
(* The environment: the API enqueues jobs, an operator triages findings.   *)
(***************************************************************************)

\* Queue messages run_worker does not hand to process_scan: bytes that are
\* not JSON, JSON that is not an object, and objects without scanId or
\* without specContent.
MalformedMessages ==
    { [raw |-> "not_json"], [raw |-> "not_object"], [scanId |-> 1],
      [specContent |-> [valid |-> TRUE, findings |-> << >>]] }

\* if scan_id and spec_content: both keys are present (and truthy).
WellFormed(msg) == DOMAIN msg = {"scanId", "specContent"}

\* What handling a malformed message raises inside the loop body:
\* json.loads raises JSONDecodeError, job_data.get on a value that is not a
\* dict raises AttributeError, a missing field takes the else branch.
RaisedBy(msg) ==
    IF "raw" \in DOMAIN msg
    THEN (IF msg.raw = "not_json" THEN "JSONDecodeError" ELSE "AttributeError")
    ELSE "none"

\* Mutant of Caught: the loop has no catch-all clause.
CaughtIfNamed(exc) == exc \in {"none", "ConnectionError", "JSONDecodeError"}

\* The except clauses of the loop body: redis.ConnectionError,
\* json.JSONDecodeError, and Exception, which every exception raised by the
\* loop body derives from.
Caught(exc) ==
    \/ exc \in {"none", "ConnectionError", "JSONDecodeError"}
    \/ exc \in {"AttributeError", "psycopg2.Error"}

\* Where run_worker is after the loop body raised exc: polling again, or out
\* of the loop.
AfterException(exc) == IF Caught(exc) THEN "idle" ELSE "stopped"

\* RPUSH vulx:scan-queue {"scanId": s, "specContent": spec}
Enqueue(s, spec) ==
    /\ nJobs < MaxJobs
    /\ nJobs' = nJobs + 1
    /\ queue' = Append(queue, [scanId |-> s, specContent |-> spec])
    /\ UNCHANGED <<scanRows, findingRows, clock, pc, job, previous_findings,
                   pending, txAborted, nTriage, nSkipped>>
    /\ UNCHANGED conn
    /\ UNCHANGED <<orchVars, dedupVars, enrichVars, staticVars, agentVars, zapVars, adapterVars>>

\* RPUSH vulx:scan-queue of a message that is not a job.
EnqueueMalformed(msg) ==
    /\ nJobs < MaxJobs
    /\ nJobs' = nJobs + 1
    /\ queue' = Append(queue, msg)
    /\ UNCHANGED <<scanRows, findingRows, clock, pc, job, previous_findings,
                   pending, txAborted, nTriage, nSkipped>>
    /\ UNCHANGED conn
    /\ UNCHANGED <<orchVars, dedupVars, enrichVars, staticVars, agentVars, zapVars, adapterVars>>

\* An operator sets the lifecycle state of a persisted finding, and either
\* leaves its notes and assignee as they are or comments on it and assigns it.
Triage(i, status, edit) ==
    /\ nTriage < MaxTriage
    /\ i \in DOMAIN findingRows
    /\ nTriage' = nTriage + 1
    /\ findingRows' = [findingRows EXCEPT ![i] =
            IF edit
            THEN [@ EXCEPT !.status = status, !.resolutionNotes = <<"triaged">>,
                           !.assignedTo = "alice"]
            ELSE [@ EXCEPT !.status = status]]
    /\ UNCHANGED <<scanRows, queue, clock, pc, job, previous_findings,
                   pending, txAborted, nJobs, nSkipped>>
    /\ UNCHANGED conn
    /\ UNCHANGED <<orchVars, dedupVars, enrichVars, staticVars, agentVars, zapVars, adapterVars>>

(***************************************************************************)
(* run_worker and process_scan, one action per stretch of code between two *)
(* points where other connections can observe or change the store.         *)
(***************************************************************************)

\* run_worker: blpop returned a task with scanId and specContent.
BlPop(w) ==
    /\ pc[w] = "idle"
    /\ queue # << >>
    /\ WellFormed(Head(queue))
    /\ job' = [job EXCEPT ![w] = Head(queue)]
    /\ queue' = Tail(queue)
    /\ pc' = [pc EXCEPT ![w] = "popped"]
    /\ UNCHANGED <<scanRows, findingRows, clock, previous_findings, pending,
                   txAborted, nJobs, nTriage, nSkipped>>
    /\ UNCHANGED conn
    /\ UNCHANGED <<orchVars, dedupVars, enrichVars, staticVars, agentVars, zapVars, adapterVars>>

\* run_worker: blpop returned a message that is not a job; it is logged and
\* the loop goes on, unless what it raised is not caught.
SkipMessage(w) ==
    /\ pc[w] = "idle"
    /\ queue # << >>
    /\ ~WellFormed(Head(queue))
    /\ queue' = Tail(queue)
    /\ pc' = [pc EXCEPT ![w] = AfterException(RaisedBy(Head(queue)))]
    /\ nSkipped' = nSkipped + 1
    /\ UNCHANGED <<scanRows, findingRows, clock, job, previous_findings, pending,
                   txAborted, nJobs, nTriage>>
    /\ UNCHANGED conn
    /\ UNCHANGED <<orchVars, dedupVars, enrichVars, staticVars, agentVars, zapVars, adapterVars>>

\* process_scan up to the first commit: connect, UPDATE status = PROCESSING,
\* commit.  This code is outside the try block: when the connection attempt or
\* the statement raises, the exception leaves process_scan and run_worker's
\* "except Exception" goes back to polling; a connection that was opened
\* before the statement raised is not closed.
MarkProcessing(w, ok) ==
    /\ pc[w] = "popped"
    /\ IF ok
       THEN /\ scanRows' = [scanRows EXCEPT ![job[w].scanId].status = "PROCESSING"]
            /\ pc' = [pc EXCEPT ![w] = "processing"]
            /\ conn' = [conn EXCEPT ![w] = "open"]
            /\ UNCHANGED job
       ELSE /\ pc' = [pc EXCEPT ![w] = AfterException("psycopg2.Error")]
            /\ job' = [job EXCEPT ![w] = NoJob]
            /\ \E connected \in BOOLEAN :
                  conn' = [conn EXCEPT ![w] = IF connected THEN "open" ELSE "none"]
            /\ UNCHANGED scanRows
    /\ UNCHANGED <<findingRows, queue, clock, previous_findings, pending,
                   txAborted, nJobs, nTriage, nSkipped>>
    /\ UNCHANGED <<orchVars, dedupVars, enrichVars, staticVars, agentVars, zapVars, adapterVars>>

ResetLocals(w) ==
    /\ job' = [job EXCEPT ![w] = NoJob]
    /\ previous_findings' = [previous_findings EXCEPT ![w] = EmptyMap]
    /\ pending' = [pending EXCEPT ![w] = << >>]
    /\ txAborted' = [txAborted EXCEPT ![w] = FALSE]

\* The except branch is entered: what the transaction inserted is lost when
\* the transaction is aborted; otherwise it is still part of the transaction.
RaiseInTry(w, aborted, prevMap) ==
    /\ pc' = [pc EXCEPT ![w] = "failing"]
    /\ txAborted' = [txAborted EXCEPT ![w] = aborted]
    /\ previous_findings' = [previous_findings EXCEPT ![w] = prevMap]
    /\ pending' = [pending EXCEPT ![w] = << >>]
    /\ UNCHANGED clock

\* process_scan inside try, from the SELECT of projectId/environment to the
\* last INSERT.  fault names the database statement that raises, if any.
\* NOW() is the start time of the transaction, which this SELECT opens: all
\* rows of one run carry the same createdAt, rows of different runs differ.
Reconcile(w, fault) ==
    /\ pc[w] = "processing"
    /\ LET scan_id == job[w].scanId
           spec == job[w].specContent
           project_id == scanRows[scan_id].projectId
           environment == scanRows[scan_id].environment
       IN  \/ /\ fault = "select_project"
              /\ RaiseInTry(w, TRUE, EmptyMap)
           \/ /\ fault = "none"
              /\ ~spec.valid
              /\ RaiseInTry(w, FALSE, EmptyMap)
           \/ /\ fault = "lookup"
              /\ spec.valid
              /\ project_id # NULL
              /\ RaiseInTry(w, TRUE, EmptyMap)
           \/ /\ fault \in {"none", "insert"}
              /\ spec.valid
              /\ \E prevMap \in (IF project_id # NULL
                                 THEN StateMaps(project_id, environment)
                                 ELSE {EmptyMap}) :
                    LET rows == ReconcileAll(scan_id, spec.findings, prevMap, clock)
                    IN  IF fault = "insert"
                        THEN /\ rows # << >>
                             /\ RaiseInTry(w, TRUE, prevMap)
                        ELSE /\ pc' = [pc EXCEPT ![w] = "completing"]
                             /\ previous_findings' =
                                    [previous_findings EXCEPT ![w] = prevMap]
                             /\ pending' = [pending EXCEPT ![w] = rows]
                             /\ clock' = clock + 1
                             /\ UNCHANGED txAborted
    /\ UNCHANGED <<scanRows, findingRows, queue, job, nJobs, nTriage, nSkipped>>
    /\ UNCHANGED conn
    /\ UNCHANGED <<orchVars, dedupVars, enrichVars, staticVars, agentVars, zapVars, adapterVars>>

\* Mutant of Complete: the rows of earlier scans with a natural key found
\* again are deleted before the new rows are committed.
CompleteReplacing(w, ok) ==
    /\ pc[w] = "completing"
    /\ IF ok
       THEN /\ findingRows' =
                 SelectSeq(findingRows,
                           LAMBDA r : \A i \in DOMAIN pending[w] :
                              NaturalKey(pending[w][i].finding) # NaturalKey(r.finding))
                 \o pending[w]
            /\ scanRows' = [scanRows EXCEPT ![job[w].scanId].status = "COMPLETED"]
            /\ pc' = [pc EXCEPT ![w] = "notify"]
            /\ pending' = [pending EXCEPT ![w] = << >>]
            /\ UNCHANGED <<txAborted, previous_findings, clock>>
       ELSE /\ RaiseInTry(w, TRUE, previous_findings[w])
            /\ UNCHANGED <<findingRows, scanRows>>
    /\ UNCHANGED <<queue, job, nJobs, nTriage, nSkipped>>
    /\ UNCHANGED conn
    /\ UNCHANGED <<orchVars, dedupVars, enrichVars, staticVars, agentVars, zapVars, adapterVars>>

\* UPDATE status = COMPLETED, "completedAt" = NOW(); commit.  The commit makes
\* the inserted rows and the status visible together.
Complete(w, ok) ==
    /\ pc[w] = "completing"
    /\ IF ok
       THEN /\ findingRows' = findingRows \o pending[w]
            /\ scanRows' = [scanRows EXCEPT ![job[w].scanId].status = "COMPLETED"]
            /\ pc' = [pc EXCEPT ![w] = "notify"]
            /\ pending' = [pending EXCEPT ![w] = << >>]
            /\ UNCHANGED <<txAborted, previous_findings, clock>>
       ELSE /\ RaiseInTry(w, TRUE, previous_findings[w])
            /\ UNCHANGED <<findingRows, scanRows>>
    /\ UNCHANGED <<queue, job, nJobs, nTriage, nSkipped>>
    /\ UNCHANGED conn
    /\ UNCHANGED <<orchVars, dedupVars, enrichVars, staticVars, agentVars, zapVars, adapterVars>>

\* Mutant of Notify: a notification that fails marks the scan FAILED.
NotifyOrFail(w) ==
    /\ pc[w] = "notify"
    /\ pc' = [pc EXCEPT ![w] = "idle"]
    /\ ResetLocals(w)
    /\ \E delivered \in BOOLEAN :
          scanRows' = IF delivered THEN scanRows
                      ELSE [scanRows EXCEPT ![job[w].scanId].status = "FAILED"]
    /\ UNCHANGED <<findingRows, queue, clock, nJobs, nTriage, nSkipped>>
    /\ conn' = [conn EXCEPT ![w] = "none"]
    /\ UNCHANGED <<orchVars, dedupVars, enrichVars, staticVars, agentVars, zapVars, adapterVars>>

\* The notification POST (in its own try/except), the finally block, which
\* closes the connection, and the return to run_worker's loop.
Notify(w) ==
    /\ pc[w] = "notify"
    /\ pc' = [pc EXCEPT ![w] = "idle"]
    /\ ResetLocals(w)
    /\ UNCHANGED <<scanRows, findingRows, queue, clock, nJobs, nTriage, nSkipped>>
    /\ conn' = [conn EXCEPT ![w] = "none"]
    /\ UNCHANGED <<orchVars, dedupVars, enrichVars, staticVars, agentVars, zapVars, adapterVars>>

\* except Exception: UPDATE status = FAILED; commit; then the finally block.
\* On an aborted transaction the UPDATE raises and the exception leaves
\* process_scan with the row as it was.
MarkFailed(w, ok) ==
    /\ pc[w] = "failing"
    /\ txAborted[w] => ~ok
    /\ IF ok
       THEN scanRows' = [scanRows EXCEPT ![job[w].scanId].status = "FAILED"]
       ELSE UNCHANGED scanRows
    /\ pc' = [pc EXCEPT ![w] = IF ok THEN "idle"
                                ELSE AfterException("psycopg2.Error")]
    /\ ResetLocals(w)
    /\ UNCHANGED <<findingRows, queue, clock, nJobs, nTriage, nSkipped>>
    /\ conn' = [conn EXCEPT ![w] = "none"]
    /\ UNCHANGED <<orchVars, dedupVars, enrichVars, staticVars, agentVars, zapVars, adapterVars>>

Faults == {"none", "select_project", "lookup", "insert"}

(***************************************************************************)
(* ScanOrchestrator: data.                                                 *)
(***************************************************************************)
ScanTypes == {"QUICK", "STANDARD", "FULL", "CONTINUOUS"}
Severities == {"CRITICAL", "HIGH", "MEDIUM", "LOW", "INFO"}

\* Python truthiness of an Optional[str]: None and '' are false.
Truthy(x) == x # NULL /\ x # ""

\* ScanTarget, reduced to the two fields scan() tests.
ScanTargets ==
    [openapi_spec_url : {NULL, "https://api/openapi.json"},
     openapi_spec_content : {NULL, "", "openapi: 3.0.0"}]

\* AuthConfig.method of the configured authentication, NULL without one.
AuthConfigs == {NULL, "bearer_token"}

\* A Finding, reduced to the fields deduplication and scoring read, and the
\* engine that reported it.
Finding(engine, type, endpoint, method, parameter, severity) ==
    [engine |-> engine, type |-> type, endpoint |-> endpoint, method |-> method,
     parameter |-> parameter, severity |-> severity]

\* What the external tool of an engine can report for the target: any list
\* of at most MaxEngineFindings findings of the engine's pool.  The three
\* pools share one deduplication key, /search GET q, at different severities;
\* the fuzzer can report two failures of one kind on one operation, whose
\* severity depends on the failure message.
EnginePool(engine) ==
    CASE engine = "nuclei" ->
            { Finding("nuclei", "xss", "/search", "GET", "q", "LOW"),
              Finding("nuclei", "cve-2021-44228", "/", "GET", NULL, "CRITICAL"),
              Finding("nuclei", "sqli", "/login", "POST", "user", "CRITICAL") }
      [] engine = "schemathesis" ->
            { Finding("schemathesis", "xss", "/search", "GET", "q", "HIGH"),
              Finding("schemathesis", "server_error", "/orders", "POST", NULL, "CRITICAL"),
              Finding("schemathesis", "response_conformance", "/orders", "GET", NULL, "MEDIUM"),
              Finding("schemathesis", "response_conformance", "/orders", "GET", NULL, "HIGH") }
      [] engine = "zap" ->
            { Finding("zap", "xss", "/search", "GET", "q", "MEDIUM"),
              Finding("zap", "Remote OS Command Injection", "/ping", "GET", "host", "CRITICAL"),
              Finding("zap", "Server Leaks Version", "/", "GET", NULL, "INFO") }

\* The deduplication at the end of SchemathesisEngine.scan: the first finding
\* of each (type, endpoint, method) is kept.
RECURSIVE FirstSeen(_, _)
FirstSeen(found, seen) ==
    IF found = << >> THEN << >>
    ELSE LET f == Head(found)
             key == <<f.type, f.endpoint, f.method>>
         IN  IF key \in seen THEN FirstSeen(Tail(found), seen)
             ELSE <<f>> \o FirstSeen(Tail(found), seen \cup {key})

\* What an adapter returns of the findings it parsed from its tool's output:
\* the fuzzer adapter its deduplicated list, the others every finding.
AdapterReturns(engine, found) ==
    IF engine = "schemathesis" THEN FirstSeen(found, {}) ELSE found

\* The findings engine.scan(target, auth_context) parses.  Every adapter catches
\* its own exceptions and returns the findings collected so far.  With an
\* authentication context, which is an AuthContext dataclass, each adapter
\* evaluates auth_context.get(...) before it starts its tool; a dataclass has
\* no get, so the AttributeError is caught before anything is parsed and the
\* empty list is returned.
EngineScan(engine, ctx) ==
    IF ctx # NULL THEN { << >> }
    ELSE SeqsUpTo(EnginePool(engine), MaxEngineFindings)

\* Whether the adapter's run ends in one of its except clauses (tool not
\* installed, timeout, proxy or HTTP error, ...): possible in every run, and
\* certain with an authentication context.
AdapterFails(ctx) == IF ctx # NULL THEN {TRUE} ELSE BOOLEAN

NoResult ==
    [status |-> NULL, findings |-> << >>, engines_used |-> << >>,
     auth_method |-> NULL, risk_score |-> 0, error |-> FALSE]

(***************************************************************************)
(* ScanOrchestrator: pure functions.                                       *)
(***************************************************************************)

\* key = (finding.type, finding.endpoint, finding.method, finding.parameter)
DedupKey(finding) ==
    <<finding.type, finding.endpoint, finding.method, finding.parameter>>

\* ranks.get(severity.upper(), 0)
_severity_rank(severity) ==
    CASE Upper(severity) = "CRITICAL" -> 5
      [] Upper(severity) = "HIGH" -> 4
      [] Upper(severity) = "MEDIUM" -> 3
      [] Upper(severity) = "LOW" -> 2
      [] Upper(severity) = "INFO" -> 1
      [] OTHER -> 0

\* Mutant of DedupStep: the first finding seen for a key is kept whatever
\* the severity of the later ones.
DedupStepFirstSeen(uniq, finding) ==
    LET same == { i \in DOMAIN uniq : DedupKey(uniq[i]) = DedupKey(finding) }
    IN  IF same = {} THEN Append(uniq, finding) ELSE uniq

\* Mutant of DedupStep: a later finding of equal rank replaces the kept one.
DedupStepLastOfEqual(uniq, finding) ==
    LET same == { i \in DOMAIN uniq : DedupKey(uniq[i]) = DedupKey(finding) }
    IN  IF same = {} THEN Append(uniq, finding)
        ELSE LET i == CHOOSE i \in same : \A j \in same : i <= j
             IN  IF _severity_rank(finding.severity) >= _severity_rank(uniq[i].severity)
                 THEN [uniq EXCEPT ![i] = finding]
                 ELSE uniq

\* One iteration of "for finding in findings" in _deduplicate_findings: a key
\* not seen is appended; otherwise the first kept finding with the key is
\* replaced when the new one ranks strictly higher.
DedupStep(uniq, finding) ==
    LET same == { i \in DOMAIN uniq : DedupKey(uniq[i]) = DedupKey(finding) }
    IN  IF same = {} THEN Append(uniq, finding)
        ELSE LET i == CHOOSE i \in same : \A j \in same : i <= j
             IN  IF _severity_rank(finding.severity) > _severity_rank(uniq[i].severity)
                 THEN [uniq EXCEPT ![i] = finding]
                 ELSE uniq

RECURSIVE DedupFrom(_, _)
DedupFrom(uniq, fs) ==
    IF fs = << >> THEN uniq
    ELSE DedupFrom(DedupStep(uniq, Head(fs)), Tail(fs))

_deduplicate_findings(fs) == DedupFrom(<< >>, fs)

\* weights.get(f.severity, 0)
weights(severity) ==
    CASE severity = "CRITICAL" -> 25
      [] severity = "HIGH" -> 15
      [] severity = "MEDIUM" -> 5
      [] severity = "LOW" -> 2
      [] OTHER -> 0

RECURSIVE total_weight(_)
total_weight(fs) ==
    IF fs = << >> THEN 0
    ELSE weights(Head(fs).severity) + total_weight(Tail(fs))

\* Mutant of _calculate_risk_score: the sum is not capped.
CalculateRiskScoreUncapped(fs) ==
    IF fs = << >> THEN 0 ELSE total_weight(fs)

_calculate_risk_score(fs) ==
    IF fs = << >> THEN 0
    ELSE IF total_weight(fs) < 100 THEN total_weight(fs) ELSE 100

(***************************************************************************)
(* ScanOrchestrator.scan: one action per engine call, one per its return.  *)
(***************************************************************************)

\* Mutant of Notified: the callback is notified twice of every state.
NotifiedTwice(log, status, progress) ==
    Append(Append(log, <<status, progress>>), <<status, progress>>)

\* _update_status: every registered callback is notified; a callback that
\* raises is logged and skipped.  The log is what one callback receives.
Notified(log, status, progress) == Append(log, <<status, progress>>)

\* Mutant of _update_status: the call is not guarded, and the loop ends at
\* the first callback that raises.
UpdateStatusUnguarded(logs, raises, calls) ==
    [c \in Callbacks |-> IF \E d \in raises : d < c THEN logs[c]
                                                     ELSE logs[c] \o calls]

\* _update_status: for callback in self._status_callbacks, the call is made
\* inside try/except Exception: a callback that raises is logged and the loop
\* goes on to the next callback; nothing reaches scan().
_update_status(logs, raises, calls) ==
    [c \in Callbacks |-> logs[c] \o calls]

\* What the registered callbacks receive in a step of scan(): its calls of
\* _update_status, in order.
NotifyCallbacks ==
    /\ callback_log' =
           _update_status(callback_log, raising_callbacks,
                          SubSeq(status_log', Len(status_log) + 1, Len(status_log')))
    /\ UNCHANGED raising_callbacks

\* scan_type in [STANDARD, FULL, CONTINUOUS] and
\*   (target.openapi_spec_url or target.openapi_spec_content)
RunsFuzzing(st, tgt) ==
    /\ st \in {"STANDARD", "FULL", "CONTINUOUS"}
    /\ Truthy(tgt.openapi_spec_url) \/ Truthy(tgt.openapi_spec_content)

\* Mutant of RunsDast: the deep scan is not restricted to FULL and CONTINUOUS.
RunsDastStandard(st) == st \in {"STANDARD", "FULL", "CONTINUOUS"}

\* scan_type in [FULL, CONTINUOUS]
RunsDast(st) == st \in {"FULL", "CONTINUOUS"}

\* Mutant of AfterFuzzing: after an adapter failure the deep scan is skipped.
AfterFuzzingUnlessFailed ==
    IF RunsDast(scan_type) /\ failed_engines = {} THEN "dast" ELSE "analyze"

\* The phase that follows the template scan, and the one that follows fuzzing.
AfterFuzzing == IF RunsDast(scan_type) THEN "dast" ELSE "analyze"
AfterQuick == IF RunsFuzzing(scan_type, target) THEN "fuzz" ELSE AfterFuzzing

\* Mutant of Fail: the callbacks are not told of the failure.
FailUnnotified(log) ==
    /\ status_log' = log
    /\ result' = [status |-> "FAILED", findings |-> << >>,
                  engines_used |-> engines_used, auth_method |-> auth_method,
                  risk_score |-> 0, error |-> TRUE]
    /\ phase' = "returned"

\* except Exception: the FAILED notification and the FAILED ScanResult.
Fail(log) ==
    /\ status_log' = Notified(log, "FAILED", 0)
    /\ result' = [status |-> "FAILED", findings |-> << >>,
                  engines_used |-> engines_used, auth_method |-> auth_method,
                  risk_score |-> 0, error |-> TRUE]
    /\ phase' = "returned"

\* Mutant of Awaited: the scan is started as a task and not awaited.
NotAwaited(active, engine) == active

\* await engine.scan(...): scan() goes on only when the engine's scan has
\* returned.
Awaited(active, engine) == active \ {engine}

\* From the entry of scan() to the first engine call: INITIALIZING, and with
\* an auth_config AUTHENTICATING and authenticate(), which returns a context
\* or raises.
Initialize(authenticated) ==
    /\ phase = "start"
    /\ LET log == Notified(status_log, "INITIALIZING", 5)
       IN  IF auth_config = NULL
           THEN /\ authenticated
                /\ status_log' = log
                /\ phase' = "quick"
                /\ UNCHANGED <<auth_context, auth_method, result>>
           ELSE IF authenticated
           THEN /\ status_log' = Notified(log, "AUTHENTICATING", 10)
                /\ auth_context' = auth_config
                /\ auth_method' = auth_config
                /\ phase' = "quick"
                /\ UNCHANGED result
           ELSE /\ Fail(Notified(log, "AUTHENTICATING", 10))
                /\ UNCHANGED <<auth_context, auth_method>>
    /\ UNCHANGED <<target, scan_type, auth_config, all_findings, engines_used,
                   invoked, in_flight, failed_engines>>
    /\ UNCHANGED parsed_findings
    /\ NotifyCallbacks
    /\ UNCHANGED <<workerVars, dedupVars, enrichVars, staticVars, agentVars, zapVars, adapterVars>>

\* Phase 1: SCANNING_QUICK and the call of nuclei_engine.scan, always.
QuickCall ==
    /\ phase = "quick"
    /\ status_log' = Notified(status_log, "SCANNING_QUICK", 15)
    /\ invoked' = Append(invoked, "nuclei")
    /\ in_flight' = in_flight \cup {"nuclei"}
    /\ phase' = "quick_wait"
    /\ UNCHANGED <<target, scan_type, auth_config, auth_context, auth_method,
                   all_findings, engines_used, failed_engines, result>>
    /\ UNCHANGED parsed_findings
    /\ NotifyCallbacks
    /\ UNCHANGED <<workerVars, dedupVars, enrichVars, staticVars, agentVars, zapVars, adapterVars>>

\* The awaited nuclei scan returns: its findings are added and the engine is
\* listed as used.
QuickScan(nuclei_findings, failed) ==
    /\ phase = "quick_wait"
    /\ in_flight' = Awaited(in_flight, "nuclei")
    /\ nuclei_findings \in EngineScan("nuclei", auth_context)
    /\ failed \in AdapterFails(auth_context)
    /\ failed => nuclei_findings = << >>
    /\ failed_engines' = IF failed THEN failed_engines \cup {"nuclei"}
                                   ELSE failed_engines
    /\ all_findings' = all_findings \o AdapterReturns("nuclei", nuclei_findings)
    /\ parsed_findings' = parsed_findings \o nuclei_findings
    /\ engines_used' = Append(engines_used, "nuclei")
    /\ phase' = AfterQuick
    /\ UNCHANGED <<target, scan_type, auth_config, auth_context, auth_method,
                   invoked, status_log, result>>
    /\ UNCHANGED <<callback_log, raising_callbacks>>
    /\ UNCHANGED <<workerVars, dedupVars, enrichVars, staticVars, agentVars, zapVars, adapterVars>>

\* Phase 2: SCANNING_FUZZING and the call of schemathesis_engine.scan.
FuzzCall ==
    /\ phase = "fuzz"
    /\ status_log' = Notified(status_log, "SCANNING_FUZZING", 35)
    /\ invoked' = Append(invoked, "schemathesis")
    /\ in_flight' = in_flight \cup {"schemathesis"}
    /\ phase' = "fuzz_wait"
    /\ UNCHANGED <<target, scan_type, auth_config, auth_context, auth_method,
                   all_findings, engines_used, failed_engines, result>>
    /\ UNCHANGED parsed_findings
    /\ NotifyCallbacks
    /\ UNCHANGED <<workerVars, dedupVars, enrichVars, staticVars, agentVars, zapVars, adapterVars>>

\* The awaited schemathesis scan returns: its findings are added and the engine is
\* listed as used.
FuzzScan(schema_findings, failed) ==
    /\ phase = "fuzz_wait"
    /\ in_flight' = Awaited(in_flight, "schemathesis")
    /\ schema_findings \in EngineScan("schemathesis", auth_context)
    /\ failed \in AdapterFails(auth_context)
    /\ failed => schema_findings = << >>
    /\ failed_engines' = IF failed THEN failed_engines \cup {"schemathesis"}
                                   ELSE failed_engines
    /\ all_findings' = all_findings \o AdapterReturns("schemathesis", schema_findings)
    /\ parsed_findings' = parsed_findings \o schema_findings
    /\ engines_used' = Append(engines_used, "schemathesis")
    /\ phase' = AfterFuzzing
    /\ UNCHANGED <<target, scan_type, auth_config, auth_context, auth_method,
                   invoked, status_log, result>>
    /\ UNCHANGED <<callback_log, raising_callbacks>>
    /\ UNCHANGED <<workerVars, dedupVars, enrichVars, staticVars, agentVars, zapVars, adapterVars>>

\* Phase 3: SCANNING_DAST and the call of zap_engine.scan.
DastCall ==
    /\ phase = "dast"
    /\ status_log' = Notified(status_log, "SCANNING_DAST", 55)
    /\ invoked' = Append(invoked, "zap")
    /\ in_flight' = in_flight \cup {"zap"}
    /\ phase' = "dast_wait"
    /\ UNCHANGED <<target, scan_type, auth_config, auth_context, auth_method,
                   all_findings, engines_used, failed_engines, result>>
    /\ UNCHANGED parsed_findings
    /\ NotifyCallbacks
    /\ UNCHANGED <<workerVars, dedupVars, enrichVars, staticVars, agentVars, zapVars, adapterVars>>

\* The awaited zap scan returns: its findings are added and the engine is
\* listed as used.
DastScan(zap_findings, failed) ==
    /\ phase = "dast_wait"
    /\ in_flight' = Awaited(in_flight, "zap")
    /\ zap_findings \in EngineScan("zap", auth_context)
    /\ failed \in AdapterFails(auth_context)
    /\ failed => zap_findings = << >>
    /\ failed_engines' = IF failed THEN failed_engines \cup {"zap"}
                                   ELSE failed_engines
    /\ all_findings' = all_findings \o AdapterReturns("zap", zap_findings)
    /\ parsed_findings' = parsed_findings \o zap_findings
    /\ engines_used' = Append(engines_used, "zap")
    /\ phase' = "analyze"
    /\ UNCHANGED <<target, scan_type, auth_config, auth_context, auth_method,
                   invoked, status_log, result>>
    /\ UNCHANGED <<callback_log, raising_callbacks>>
    /\ UNCHANGED <<workerVars, dedupVars, enrichVars, staticVars, agentVars, zapVars, adapterVars>>

\* Phase 4: ANALYZING, deduplication, enrichment (which changes none of the
\* fields modelled), metrics, COMPLETED, and the COMPLETED ScanResult.
Analyze ==
    /\ phase = "analyze"
    /\ all_findings' = _deduplicate_findings(all_findings)
    /\ status_log' = Notified(Notified(status_log, "ANALYZING", 85), "COMPLETED", 100)
    /\ result' = [status |-> "COMPLETED", findings |-> all_findings',
                  engines_used |-> engines_used, auth_method |-> auth_method,
                  risk_score |-> _calculate_risk_score(all_findings'),
                  error |-> FALSE]
    /\ phase' = "returned"
    /\ UNCHANGED <<target, scan_type, auth_config, auth_context, auth_method,
                   engines_used, invoked, in_flight, failed_engines>>
    /\ UNCHANGED parsed_findings
    /\ NotifyCallbacks
    /\ UNCHANGED <<workerVars, dedupVars, enrichVars, staticVars, agentVars, zapVars, adapterVars>>

(***************************************************************************)
(* One call of _deduplicate_findings on an arbitrary list.                 *)
(***************************************************************************)

\* Five keys, each differing from the first in one component, in every
\* severity, reported by either of two engines.
DedupKeys ==
    { <<"xss", "/search", "GET", "q">>, <<"sqli", "/search", "GET", "q">>,
      <<"xss", "/login", "GET", "q">>, <<"xss", "/search", "POST", "q">>,
      <<"xss", "/search", "GET", NULL>> }

DedupFindings ==
    { Finding(e, k[1], k[2], k[3], k[4], sev) :
        e \in {"nuclei", "zap"}, k \in DedupKeys, sev \in Severities }

Deduplicate ==
    /\ ~deduplicated
    /\ unique' = _deduplicate_findings(dedupInput)
    /\ deduplicated' = TRUE
    /\ UNCHANGED dedupInput
    /\ UNCHANGED <<workerVars, orchVars, enrichVars, staticVars, agentVars, zapVars, adapterVars>>

(***************************************************************************)
(* Enrichment of a finding: ComplianceMapper.map_finding.                  *)
(* Strings the code takes apart are sequences of tokens: "CWE-639" is      *)
(* <<"CWE-", "639">>, "API1:2023 - Broken ..." is <<"API1:2023", " - ",    *)
(* "Broken ...">>; None and '' are the empty sequence.                     *)
(***************************************************************************)
Frameworks == {"soc2", "pci_dss", "iso_27001"}

\* CWE_MAPPINGS, the entries of CWE-89, CWE-200 and CWE-639 for Frameworks.
CweMappings ==
    (<<"CWE-", "89">> :>
        [soc2 |-> <<"CC6.1", "CC6.6", "CC7.1", "CC7.2">>,
         pci_dss |-> <<"6.2.4", "6.3.1", "6.5.1">>,
         iso_27001 |-> <<"A.14.2.5", "A.14.1.2">>])
    @@ (<<"CWE-", "200">> :>
        [soc2 |-> <<"CC6.1", "CC6.7", "P4.1">>,
         pci_dss |-> <<"3.4.1", "4.2.1", "8.3.1">>,
         iso_27001 |-> <<"A.8.2.3", "A.13.2.3">>])
    @@ (<<"CWE-", "639">> :>
        [soc2 |-> <<"CC6.1", "CC6.3", "CC6.6">>,
         pci_dss |-> <<"7.1.1", "7.2.1", "7.3.1">>,
         iso_27001 |-> <<"A.9.1.1", "A.9.4.1">>])

\* OWASP_MAPPINGS, the entries of API1:2023 and API8:2023 for Frameworks.
OwaspMappings ==
    (<<"API1:2023">> :>
        [soc2 |-> <<"CC6.1", "CC6.3">>, pci_dss |-> <<"7.1.1", "7.2.1">>])
    @@ (<<"API8:2023">> :>
        [soc2 |-> <<"CC6.1", "CC6.6", "CC7.1">>, pci_dss |-> <<"2.2.1", "6.4.1">>])

CweIds ==
    { << >>, <<"CWE-", "639">>, <<"639">>, <<"CWE-", "89">>, <<"CWE-", "200">>,
      <<"CWE-", "1004">> }

OwaspCategories ==
    { << >>, <<"API1:2023", " - ", "Broken Object Level Authorization">>,
      <<"API1:2023">>, <<"API8:2023", " - ", "Security Misconfiguration">>,
      <<"A01:2021", " - ", "Broken Access Control">> }

\* str.replace(old, ""): every occurrence of the token is removed.
Remove(str, old) == SelectSeq(str, LAMBDA t : t # old)

\* cwe_key = f"CWE-{finding.cwe_id.replace('CWE-', '')}"
CweKey(cwe_id) == <<"CWE-">> \o Remove(cwe_id, "CWE-")

\* str.split(sep)[0]: what precedes the first separator, all of it without one.
RECURSIVE SplitFirst(_, _)
SplitFirst(str, sep) ==
    IF str = << >> \/ Head(str) = sep THEN << >>
    ELSE <<Head(str)>> \o SplitFirst(Tail(str), sep)

\* Mutant of IsEnabled: the configured subset is not consulted.
IsEnabledAlways(framework, enabled) == TRUE

\* any(f.value == framework for f in self.enabled_frameworks)
IsEnabled(framework, enabled) == \E f \in enabled : f = framework

\* for framework, controls in entry.items(): if enabled, create
\* mappings[framework] if missing and extend it with the controls.
ExtendMappings(mappings, entry, enabled) ==
    LET added == { fw \in DOMAIN entry : IsEnabled(fw, enabled) }
    IN  [fw \in DOMAIN mappings \cup added |->
            (IF fw \in DOMAIN mappings THEN mappings[fw] ELSE << >>)
            \o (IF fw \in added THEN entry[fw] ELSE << >>)]

\* list(set(controls)), up to the order of the list.
Distinct(controls) == { controls[i] : i \in DOMAIN controls }

map_finding(f, enabled, cwe_table, owasp_table) ==
    LET cwe_key == CweKey(f.cwe_id)
        owasp_id == SplitFirst(f.owasp_category, " - ")
        byCwe == IF f.cwe_id # << >> /\ cwe_key \in DOMAIN cwe_table
                 THEN ExtendMappings(EmptyMap, cwe_table[cwe_key], enabled)
                 ELSE EmptyMap
        byOwasp == IF f.owasp_category # << >> /\ owasp_id \in DOMAIN owasp_table
                   THEN ExtendMappings(byCwe, owasp_table[owasp_id], enabled)
                   ELSE byCwe
    IN  [fw \in DOMAIN byOwasp |-> Distinct(byOwasp[fw])]

\* One call of compliance_mapper.map_finding(finding).
MapFinding ==
    /\ Len(map_results) < MaxCalls
    /\ map_results' = Append(map_results,
            map_finding(enriched, enabled_frameworks, CWE_MAPPINGS, OWASP_MAPPINGS))
    /\ UNCHANGED <<enriched, enabled_frameworks, CWE_MAPPINGS, OWASP_MAPPINGS,
                   remediation_types>>
    /\ UNCHANGED <<workerVars, orchVars, dedupVars, staticVars, agentVars, zapVars, adapterVars>>

(***************************************************************************)
(* Enrichment of a finding: RemediationEngine.get_remediation.             *)
(***************************************************************************)
CWE_TO_TYPE ==
    (<<"CWE-", "89">> :> "sql_injection") @@ (<<"CWE-", "79">> :> "xss")
    @@ (<<"CWE-", "639">> :> "bola") @@ (<<"CWE-", "287">> :> "broken_auth")
    @@ (<<"CWE-", "306">> :> "broken_auth") @@ (<<"CWE-", "770">> :> "rate_limiting")
    @@ (<<"CWE-", "918">> :> "ssrf") @@ (<<"CWE-", "16">> :> "security_headers")
    @@ (<<"CWE-", "693">> :> "security_headers")

OWASP_TO_TYPE ==
    (<<"API1:2023">> :> "bola") @@ (<<"API2:2023">> :> "broken_auth")
    @@ (<<"API3:2023">> :> "bola") @@ (<<"API4:2023">> :> "rate_limiting")
    @@ (<<"API7:2023">> :> "ssrf") @@ (<<"API8:2023">> :> "security_headers")

\* The keys of REMEDIATIONS.
REMEDIATIONS ==
    {"sql_injection", "xss", "bola", "broken_auth", "rate_limiting", "ssrf",
     "security_headers"}

FindingTypes ==
    {"JavaScript Injection", "Missing Authorization", "login-panel",
     "Rate Limit Missing", "ssrf-probe", "server_error"}

\* str.lower()
Lower(type) ==
    CASE type = "JavaScript Injection" -> "javascript injection"
      [] type = "Missing Authorization" -> "missing authorization"
      [] type = "Rate Limit Missing" -> "rate limit missing"
      [] type = "POST" -> "post"
      [] type = "apiKey" -> "apikey"
      [] type = "Basic" -> "basic"
      [] type = "ORDER" -> "order"
      [] type = "CRITICAL" -> "critical"
      [] type = "HIGH" -> "high"
      [] type = "MEDIUM" -> "medium"
      [] type = "LOW" -> "low"
      [] type = "INFO" -> "info"
      [] OTHER -> type

\* key in finding_type_lower: the keywords of the dispatcher that occur as
\* substrings of a lower-case type.
KeywordsIn(lowered) ==
    CASE lowered = "javascript injection" -> {"injection", "script"}
      [] lowered = "missing authorization" -> {"authorization", "auth"}
      [] lowered = "login-panel" -> {"login"}
      [] lowered = "rate limit missing" -> {"rate", "limit"}
      [] lowered = "ssrf-probe" -> {"ssrf"}
      [] OTHER -> {}

\* The keyword checks of _get_remediation_type, in their order.
KeywordType(finding_type_lower) ==
    LET found == KeywordsIn(finding_type_lower)
    IN  IF found \cap {"sql", "injection", "sqli"} # {} THEN "sql_injection"
        ELSE IF found \cap {"xss", "cross-site scripting", "script"} # {} THEN "xss"
        ELSE IF found \cap {"bola", "idor", "authorization"} # {} THEN "bola"
        ELSE IF found \cap {"auth", "login", "password"} # {} THEN "broken_auth"
        ELSE IF found \cap {"rate", "limit", "dos", "throttl"} # {} THEN "rate_limiting"
        ELSE IF found \cap {"ssrf", "server-side request"} # {} THEN "ssrf"
        ELSE NULL

\* Mutant of _get_remediation_type: the OWASP table is consulted first.
RemediationTypeOwaspFirst(f) ==
    IF f.owasp_category # << >>
          /\ SplitFirst(f.owasp_category, " - ") \in DOMAIN OWASP_TO_TYPE
    THEN OWASP_TO_TYPE[SplitFirst(f.owasp_category, " - ")]
    ELSE IF f.cwe_id # << >> /\ CweKey(f.cwe_id) \in DOMAIN CWE_TO_TYPE
    THEN CWE_TO_TYPE[CweKey(f.cwe_id)]
    ELSE KeywordType(Lower(f.type))

_get_remediation_type(f) ==
    IF f.cwe_id # << >> /\ CweKey(f.cwe_id) \in DOMAIN CWE_TO_TYPE
    THEN CWE_TO_TYPE[CweKey(f.cwe_id)]
    ELSE IF f.owasp_category # << >>
          /\ SplitFirst(f.owasp_category, " - ") \in DOMAIN OWASP_TO_TYPE
    THEN OWASP_TO_TYPE[SplitFirst(f.owasp_category, " - ")]
    ELSE KeywordType(Lower(f.type))

\* get_remediation: the tag of the template it fills the Remediation from,
\* "generic" for the generic remediation.
get_remediation(f) ==
    LET remediation_type == _get_remediation_type(f)
    IN  IF remediation_type # NULL /\ remediation_type \in REMEDIATIONS
        THEN remediation_type
        ELSE "generic"

\* One call of remediation_engine.get_remediation(finding).
GetRemediation ==
    /\ Len(remediation_types) < MaxCalls
    /\ remediation_types' = Append(remediation_types, get_remediation(enriched))
    /\ UNCHANGED <<enriched, enabled_frameworks, CWE_MAPPINGS, OWASP_MAPPINGS,
                   map_results>>
    /\ UNCHANGED <<workerVars, orchVars, dedupVars, staticVars, agentVars, zapVars, adapterVars>>

(***************************************************************************)
(* The OpenAPI static analyzer: OWASPScanner.scan and its BOLA check.      *)
(* A path is a sequence of tokens cut where the ID patterns can match:     *)
(* "/users/{userId}" is <<"/", "users", "/", "{", "user", "Id", "}">>.     *)
(***************************************************************************)
Paths ==
    { <<"/", "users">>,
      <<"/", "users", "/", "{", "user", "Id", "}">>,
      <<"/", "orders", "/", "{", "ORDER", "_ref", "}">>,
      <<"/", "posts", "/", "{", "slug", "}">>,
      <<"/", "{", "tenant", "}", "/", "by-", "id">>,
      <<"/", "teams", "/", "{", "team", "}", "/", "members", "/", "{", "uu", "id", "}">> }

\* The keys of a path item: two operations and one the scanner does not scan.
MethodKeys == {"get", "POST", "trace"}

\* An operation object with no security key, with security: [] and with one
\* security requirement; a requirement is the list of the scheme names it keys.
Operations ==
    { EmptyMap, [security |-> << >>], [security |-> << <<"apiKeyAuth">> >>],
      [security |-> << <<"basicAuth">> >>] }

\* The top-level security of the document.
GlobalSecurity == { << >>, << <<"apiKeyAuth">> >> }

\* securityDefinitions / components.securitySchemes: none declared, an API key
\* in the query string, an API key in a header beside HTTP Basic.
SchemeTables ==
    { EmptyMap,
      ("apiKeyAuth" :> [type |-> "apiKey", in |-> "query", scheme |-> ""]),
      ("apiKeyAuth" :> [type |-> "apiKey", in |-> "header", scheme |-> ""])
        @@ ("basicAuth" :> [type |-> "http", in |-> "", scheme |-> "Basic"]) }

\* re.IGNORECASE: tokens are compared in lower case.
IgnoreCase(token) ==
    CASE token \in {"Id", "ID"} -> "id"
      [] token = "ORDER" -> "order"
      [] OTHER -> token

\* ID_PATTERNS: \{ then the word of the prefix, then .*, then the word of the
\* suffix, then \}.
ID_PATTERNS ==
    << [prefix |-> << >>, suffix |-> <<"id">>],
       [prefix |-> << >>, suffix |-> <<"Id">>],
       [prefix |-> << >>, suffix |-> <<"ID">>],
       [prefix |-> <<"user">>, suffix |-> << >>],
       [prefix |-> <<"account">>, suffix |-> << >>],
       [prefix |-> <<"order">>, suffix |-> << >>],
       [prefix |-> <<"customer">>, suffix |-> << >>],
       [prefix |-> <<"profile">>, suffix |-> << >>],
       [prefix |-> <<"document">>, suffix |-> << >>],
       [prefix |-> <<"file">>, suffix |-> << >>],
       [prefix |-> <<"record">>, suffix |-> << >>],
       [prefix |-> <<"item">>, suffix |-> << >>] >>

\* re.search(pattern, path, re.IGNORECASE): some "{" is followed by the prefix,
\* and after that, any text later, by the suffix and a "}".
Search(pattern, path) ==
    \E i, j \in DOMAIN path :
        /\ path[i] = "{"
        /\ path[j] = "}"
        /\ i + Len(pattern.prefix) < j - Len(pattern.suffix)
        /\ \A k \in DOMAIN pattern.prefix :
              IgnoreCase(path[i + k]) = IgnoreCase(pattern.prefix[k])
        /\ \A k \in DOMAIN pattern.suffix :
              IgnoreCase(path[j - Len(pattern.suffix) - 1 + k])
                = IgnoreCase(pattern.suffix[k])

_endpoint_has_security(operation, global_security) ==
    IF "security" \in DOMAIN operation
    THEN Len(operation["security"]) > 0
    ELSE Len(global_security) > 0

\* The Finding that _check_bola appends.
BolaFinding(path, method, has_security) ==
    [type |-> "BOLA",
     severity |-> IF ~has_security THEN "HIGH" ELSE "MEDIUM",
     endpoint |-> path,
     method |-> method,
     owasp_category |-> <<"API1:2023", " - ", "Broken Object Level Authorization">>,
     cwe_id |-> <<"CWE-", "639">>]

\* Mutant of CheckBolaFrom: the loop goes on after a match.
RECURSIVE CheckBolaNoBreak(_, _, _, _, _, _)
CheckBolaNoBreak(k, reported, path, method, operation, global_security) ==
    IF k > Len(ID_PATTERNS) THEN reported
    ELSE IF Search(ID_PATTERNS[k], path)
    THEN CheckBolaNoBreak(k + 1,
            Append(reported,
                   BolaFinding(path, method,
                               _endpoint_has_security(operation, global_security))),
            path, method, operation, global_security)
    ELSE CheckBolaNoBreak(k + 1, reported, path, method, operation, global_security)

\* for pattern in self.ID_PATTERNS, from the k-th on: the first pattern found
\* in the path appends the finding and ends the loop.
RECURSIVE CheckBolaFrom(_, _, _, _, _, _)
CheckBolaFrom(k, reported, path, method, operation, global_security) ==
    IF k > Len(ID_PATTERNS) THEN reported
    ELSE IF Search(ID_PATTERNS[k], path)
    THEN Append(reported,
                BolaFinding(path, method,
                            _endpoint_has_security(operation, global_security)))
    ELSE CheckBolaFrom(k + 1, reported, path, method, operation, global_security)

_check_bola(reported, path, method, operation, global_security) ==
    CheckBolaFrom(1, reported, path, method, operation, global_security)

\* pattern in path.lower() for some pattern of BUSINESS_FLOW_PATTERNS +
\* ADMIN_PATTERNS: of the tokens of Paths only "orders" and "order" hold one.
IsSensitive(path) ==
    \E i \in DOMAIN path : Lower(path[i]) \in {"orders", "order"}

RECURSIVE Flatten(_)
Flatten(lists) ==
    IF lists = << >> THEN << >> ELSE Head(lists) \o Flatten(Tail(lists))

\* _get_endpoint_security_schemes: the declared schemes that the operation's
\* requirements, or the global ones when it has no security key, name.
_get_endpoint_security_schemes(operation, global_security, security_definitions) ==
    LET security == IF "security" \in DOMAIN operation
                    THEN operation["security"]
                    ELSE global_security
        named == Flatten(security)
    IN  [n \in { named[i] : i \in DOMAIN named } \cap DOMAIN security_definitions
           |-> security_definitions[n]]

StaticFinding(type, severity, path, method, owasp_category, cwe_id) ==
    [type |-> type, severity |-> severity, endpoint |-> path, method |-> method,
     owasp_category |-> owasp_category, cwe_id |-> cwe_id]

BrokenAuthentication == <<"API2:2023", " - ", "Broken Authentication">>

\* The findings one scheme adds in the loop of _check_authentication.
SchemeFindings(scheme, path, method) ==
    (IF Lower(scheme.type) = "http" /\ Lower(scheme.scheme) = "basic"
     THEN << StaticFinding("WEAK_AUTH", "MEDIUM", path, method,
                           BrokenAuthentication, <<"CWE-", "287">>) >>
     ELSE << >>)
    \o (IF Lower(scheme.type) = "apikey" /\ scheme.in = "query"
        THEN << StaticFinding("APIKEY_IN_QUERY", "MEDIUM", path, method,
                              BrokenAuthentication, <<"CWE-", "598">>) >>
        ELSE << >>)

\* The loop over security_schemes.items(), in the order the names were met.
RECURSIVE SchemesFindings(_, _, _, _, _)
SchemesFindings(names, seen, schemes, path, method) ==
    IF names = << >> THEN << >>
    ELSE IF Head(names) \in seen \/ Head(names) \notin DOMAIN schemes
    THEN SchemesFindings(Tail(names), seen, schemes, path, method)
    ELSE SchemeFindings(schemes[Head(names)], path, method)
         \o SchemesFindings(Tail(names), seen \cup {Head(names)}, schemes,
                            path, method)

\* Mutant of _check_authentication: the weak schemes are reported whether or
\* not the endpoint has security.
CheckAuthenticationAlways(reported, path, method, operation, global_security, security_definitions) ==
    LET has_security == _endpoint_has_security(operation, global_security)
        named == Flatten(global_security)
    IN  (IF ~has_security
         THEN Append(reported,
                StaticFinding("AUTH_MISSING",
                              IF IsSensitive(path) THEN "CRITICAL" ELSE "HIGH",
                              path, method, BrokenAuthentication, <<"CWE-", "306">>))
         ELSE reported)
        \o SchemesFindings(named, {}, security_definitions, path, method)

_check_authentication(reported, path, method, operation, global_security, security_definitions) ==
    LET has_security == _endpoint_has_security(operation, global_security)
        security == IF "security" \in DOMAIN operation
                    THEN operation["security"]
                    ELSE global_security
        security_schemes ==
            _get_endpoint_security_schemes(operation, global_security,
                                           security_definitions)
    IN  IF ~has_security
        THEN Append(reported,
                StaticFinding("AUTH_MISSING",
                              IF IsSensitive(path) THEN "CRITICAL" ELSE "HIGH",
                              path, method, BrokenAuthentication, <<"CWE-", "306">>))
        ELSE reported \o SchemesFindings(Flatten(security), {}, security_schemes,
                                         path, method)

HttpMethods == {"get", "post", "put", "patch", "delete", "head", "options"}

\* scan(): the next entry of the document is an operation; _scan_endpoint
\* runs the BOLA check on it with the method in upper case.
ScanEndpoint ==
    /\ cursor < Len(openapi.operations)
    /\ LET entry == openapi.operations[cursor + 1]
       IN  /\ Lower(entry.method) \in HttpMethods
           /\ static_findings' =
                 _check_authentication(
                     _check_bola(static_findings, entry.path, Upper(entry.method),
                                 entry.operation, openapi.security),
                     entry.path, Upper(entry.method), entry.operation,
                     openapi.security, openapi.schemes)
    /\ cursor' = cursor + 1
    /\ UNCHANGED <<openapi, static_done>>
    /\ UNCHANGED <<workerVars, orchVars, dedupVars, enrichVars, agentVars, zapVars, adapterVars>>

\* scan(): the next entry is under a key that is not one of the seven methods.
SkipEntry ==
    /\ cursor < Len(openapi.operations)
    /\ Lower(openapi.operations[cursor + 1].method) \notin HttpMethods
    /\ cursor' = cursor + 1
    /\ UNCHANGED <<openapi, static_findings, static_done>>
    /\ UNCHANGED <<workerVars, orchVars, dedupVars, enrichVars, agentVars, zapVars, adapterVars>>

\* scan(): after the last entry, _check_global_security; then the findings
\* are returned.
CheckGlobalSecurity ==
    /\ cursor = Len(openapi.operations)
    /\ ~static_done
    /\ static_findings' =
         IF openapi.security = << >> /\ openapi.schemes = EmptyMap
         THEN Append(static_findings,
                StaticFinding("NO_GLOBAL_SECURITY", "HIGH", <<"/", "api">>, "*",
                              BrokenAuthentication, <<"CWE-", "306">>))
         ELSE static_findings
    /\ static_done' = TRUE
    /\ UNCHANGED <<openapi, cursor>>
    /\ UNCHANGED <<workerVars, orchVars, dedupVars, enrichVars, agentVars, zapVars, adapterVars>>

(***************************************************************************)
(* The agent's scan command: VulxScanner.scan and the exit code.           *)
(***************************************************************************)
FailOnChoices == {"critical", "high", "medium", "low"}

severity_levels == <<"info", "low", "medium", "high", "critical">>

\* list.index(x)
IndexIn(list, x) == CHOOSE i \in DOMAIN list : list[i] = x

\* The findings of an agent run, reduced to their severity.
AgentFindings == SeqsUpTo([severity : Severities], MaxFindings)

\* The loop over the findings that ends the command with 1 at the first
\* finding at or above the threshold, and with 0 after the last.
ExitCodeFor(agent_findings, threshold) ==
    IF \E i \in DOMAIN agent_findings :
          /\ Lower(agent_findings[i].severity)
                \in { severity_levels[k] : k \in DOMAIN severity_levels }
          /\ IndexIn(severity_levels, Lower(agent_findings[i].severity))
                >= IndexIn(severity_levels, threshold)
    THEN 1
    ELSE 0

\* scanner.scan() ran every phase and returned the COMPLETED result.
AgentScanCompletes(agent_findings) ==
    /\ agent_pc = "start"
    /\ agent_result' = [status |-> "COMPLETED", findings |-> agent_findings]
    /\ agent_pc' = "scanned"
    /\ UNCHANGED <<fail_on, upload_configured, upload_state, exit_code>>
    /\ UNCHANGED <<workerVars, orchVars, dedupVars, enrichVars, staticVars, zapVars, adapterVars>>

\* scanner.scan() caught an exception of its own and returned the FAILED
\* result with the findings gathered until then.
AgentScanFails(agent_findings) ==
    /\ agent_pc = "start"
    /\ agent_result' = [status |-> "FAILED", findings |-> agent_findings]
    /\ agent_pc' = "scanned"
    /\ UNCHANGED <<fail_on, upload_configured, upload_state, exit_code>>
    /\ UNCHANGED <<workerVars, orchVars, dedupVars, enrichVars, staticVars, zapVars, adapterVars>>

\* asyncio.run(run_scan()) raised: 130 on KeyboardInterrupt, 1 on an Exception.
AgentScanRaises(exc) ==
    /\ agent_pc = "start"
    /\ exit_code' = IF exc = "KeyboardInterrupt" THEN 130 ELSE 1
    /\ agent_result' = [status |-> exc, findings |-> << >>]
    /\ agent_pc' = "exited"
    /\ UNCHANGED <<fail_on, upload_configured, upload_state>>
    /\ UNCHANGED <<workerVars, orchVars, dedupVars, enrichVars, staticVars, zapVars, adapterVars>>

\* The results are printed and, if the platform is configured, uploaded; an
\* exception of the upload is caught and reported as a warning.
AgentReport(ok) ==
    /\ agent_pc = "scanned"
    /\ upload_state' = IF ~upload_configured THEN "none"
                       ELSE IF ok THEN "uploaded" ELSE "failed"
    /\ agent_pc' = "reported"
    /\ UNCHANGED <<fail_on, upload_configured, agent_result, exit_code>>
    /\ UNCHANGED <<workerVars, orchVars, dedupVars, enrichVars, staticVars, zapVars, adapterVars>>

\* The exit code is determined from the findings of the result.
AgentExit ==
    /\ agent_pc = "reported"
    /\ exit_code' = ExitCodeFor(agent_result.findings, fail_on)
    /\ agent_pc' = "exited"
    /\ UNCHANGED <<fail_on, upload_configured, agent_result, upload_state>>
    /\ UNCHANGED <<workerVars, orchVars, dedupVars, enrichVars, staticVars, zapVars, adapterVars>>

(***************************************************************************)
(* ZAPEngine.scan: the steps it drives the proxy through.                  *)
(***************************************************************************)
\* The auth_context argument: None, a dict, or the AuthContext object the
\* orchestrator passes; whether a spec is given; ZAPConfig.ajax_spider.
ZapConfigs ==
    [auth : {NULL, "dict", "AuthContext"}, spec : BOOLEAN, ajax_spider : BOOLEAN]

ZapRisks == {"High", "Informational"}

RISK_MAP ==
    [risk \in {"Informational", "Low", "Medium", "High", "Critical"} |->
        CASE risk = "Informational" -> "INFO"
          [] risk = "Low" -> "LOW"
          [] risk = "Medium" -> "MEDIUM"
          [] risk = "High" -> "HIGH"
          [] OTHER -> "CRITICAL"]

\* _alert_to_finding, reduced to the engine and the severity.
_alert_to_finding(alert) ==
    [engine |-> "zap",
     severity |-> IF alert \in DOMAIN RISK_MAP THEN RISK_MAP[alert] ELSE "INFO"]

AlertsToFindings(alerts) == [i \in DOMAIN alerts |-> _alert_to_finding(alerts[i])]

\* ZAP raises alerts while the spiders and the active scan run.
MoreAlerts(alert) ==
    IF alert # NULL /\ Len(zap_alerts) < MaxEngineFindings
    THEN Append(zap_alerts, alert)
    ELSE zap_alerts

\* A step is issued: when it raises, the except clause of scan() logs the
\* error and scan() returns the findings, which are still empty.
ZapIssue(call, ok, next) ==
    /\ zap_calls' = Append(zap_calls, call)
    /\ zap_pc' = IF ok THEN next ELSE "returned"
    /\ zap_error' = ~ok
    /\ zap_returned' = IF ok THEN NULL ELSE << >>

\* time.time() - start_time > self.config.max_duration, in polls.
TimedOutNever(elapsed) == FALSE

TimedOut(elapsed) == elapsed > MaxDuration

\* Mutant of AfterSpider: the Ajax spider is never run.
AfterSpiderSkipsAjax(config) == "ascan"

\* if self.config.ajax_spider
AfterSpider(config) == IF config.ajax_spider THEN "ajax" ELSE "ascan"

\* if not await self.start_zap(): raise RuntimeError
ZapStartZap(started) ==
    /\ zap_pc = "start_zap"
    /\ ZapIssue("start_zap", started, "newSession")
    /\ UNCHANGED <<zap_config, zap_clock, zap_scan_state, zap_alerts>>
    /\ UNCHANGED <<workerVars, orchVars, dedupVars, enrichVars, staticVars, agentVars,
                   adapterVars>>

ZapNewSession(ok) ==
    /\ zap_pc = "newSession"
    /\ ZapIssue("newSession", ok, "auth")
    /\ UNCHANGED <<zap_config, zap_clock, zap_scan_state, zap_alerts>>
    /\ UNCHANGED <<workerVars, orchVars, dedupVars, enrichVars, staticVars, agentVars,
                   adapterVars>>

\* if auth_context: await self._configure_authentication(auth_context). The
\* AuthContext object has no get(): the call raises before any request.
ZapConfigureAuth(ok) ==
    /\ zap_pc = "auth"
    /\ IF zap_config.auth = NULL
       THEN /\ zap_pc' = "import"
            /\ UNCHANGED <<zap_calls, zap_error, zap_returned>>
       ELSE IF zap_config.auth = "AuthContext"
       THEN /\ zap_pc' = "returned"
            /\ zap_error' = TRUE
            /\ zap_returned' = << >>
            /\ UNCHANGED zap_calls
       ELSE ZapIssue("configure_auth", ok, "import")
    /\ UNCHANGED <<zap_config, zap_clock, zap_scan_state, zap_alerts>>
    /\ UNCHANGED <<workerVars, orchVars, dedupVars, enrichVars, staticVars, agentVars,
                   adapterVars>>

\* if openapi_spec: await self._import_openapi(...), which swallows a failure.
ZapImportOpenapi ==
    /\ zap_pc = "import"
    /\ zap_calls' = IF zap_config.spec THEN Append(zap_calls, "import_openapi")
                    ELSE zap_calls
    /\ zap_pc' = "context"
    /\ UNCHANGED <<zap_config, zap_clock, zap_scan_state, zap_alerts, zap_error,
                   zap_returned>>
    /\ UNCHANGED <<workerVars, orchVars, dedupVars, enrichVars, staticVars, agentVars,
                   adapterVars>>

\* context/newContext and context/includeInContext
ZapIncludeInContext(ok) ==
    /\ zap_pc = "context"
    /\ ZapIssue("include_context", ok, "exclude")
    /\ UNCHANGED <<zap_config, zap_clock, zap_scan_state, zap_alerts>>
    /\ UNCHANGED <<workerVars, orchVars, dedupVars, enrichVars, staticVars, agentVars,
                   adapterVars>>

\* for path in target.exclude_paths: excludeFromContext, failures ignored.
ZapExcludePaths ==
    /\ zap_pc = "exclude"
    /\ ZapIssue("exclude_paths", TRUE, "spider")
    /\ UNCHANGED <<zap_config, zap_clock, zap_scan_state, zap_alerts>>
    /\ UNCHANGED <<workerVars, orchVars, dedupVars, enrichVars, staticVars, agentVars,
                   adapterVars>>

ZapSpider(ok) ==
    /\ zap_pc = "spider"
    /\ ZapIssue("spider", ok, "spider_wait")
    /\ UNCHANGED <<zap_config, zap_clock, zap_scan_state, zap_alerts>>
    /\ UNCHANGED <<workerVars, orchVars, dedupVars, enrichVars, staticVars, agentVars,
                   adapterVars>>

\* One turn of the loop that waits for the spider: the status is read and
\* the loop left at 100, or two seconds slept.  There is no timeout.
ZapSpiderPoll(ok, done, alert) ==
    /\ zap_pc = "spider_wait"
    /\ zap_alerts' = MoreAlerts(alert)
    /\ zap_pc' = IF ~ok THEN "returned"
                 ELSE IF done THEN AfterSpider(zap_config) ELSE "spider_sleep"
    /\ zap_error' = ~ok
    /\ zap_returned' = IF ok THEN NULL ELSE << >>
    /\ UNCHANGED <<zap_config, zap_calls, zap_clock, zap_scan_state>>
    /\ UNCHANGED <<workerVars, orchVars, dedupVars, enrichVars, staticVars, agentVars,
                   adapterVars>>

ZapAjaxSpider(ok) ==
    /\ zap_pc = "ajax"
    /\ ZapIssue("ajax_spider", ok, "ajax_wait")
    /\ UNCHANGED <<zap_config, zap_clock, zap_scan_state, zap_alerts>>
    /\ UNCHANGED <<workerVars, orchVars, dedupVars, enrichVars, staticVars, agentVars,
                   adapterVars>>

\* One turn of the loop that waits for the Ajax spider: the status is read
\* and the loop left at "stopped", or two seconds slept.  There is no timeout.
ZapAjaxPoll(ok, done, alert) ==
    /\ zap_pc = "ajax_wait"
    /\ zap_alerts' = MoreAlerts(alert)
    /\ zap_pc' = IF ~ok THEN "returned" ELSE IF done THEN "ascan" ELSE "ajax_sleep"
    /\ zap_error' = ~ok
    /\ zap_returned' = IF ok THEN NULL ELSE << >>
    /\ UNCHANGED <<zap_config, zap_calls, zap_clock, zap_scan_state>>
    /\ UNCHANGED <<workerVars, orchVars, dedupVars, enrichVars, staticVars, agentVars,
                   adapterVars>>

\* await asyncio.sleep(2) in a spider's waiting loop is over: the next turn.
ZapSleep ==
    /\ zap_pc \in {"spider_sleep", "ajax_sleep"}
    /\ zap_pc' = IF zap_pc = "spider_sleep" THEN "spider_wait" ELSE "ajax_wait"
    /\ UNCHANGED <<zap_config, zap_calls, zap_clock, zap_scan_state, zap_alerts,
                   zap_error, zap_returned>>
    /\ UNCHANGED <<workerVars, orchVars, dedupVars, enrichVars, staticVars, agentVars,
                   adapterVars>>

\* ascan/scan; start_time = time.time()
ZapActiveScan(ok) ==
    /\ zap_pc = "ascan"
    /\ ZapIssue("ascan", ok, "ascan_wait")
    /\ zap_scan_state' = IF ok THEN "running" ELSE "none"
    /\ zap_clock' = 0
    /\ UNCHANGED <<zap_config, zap_alerts>>
    /\ UNCHANGED <<workerVars, orchVars, dedupVars, enrichVars, staticVars, agentVars,
                   adapterVars>>

\* One turn of the loop that waits for the active scan: past max_duration
\* ascan/stop is issued and the loop left; otherwise the status is read and
\* the loop left at 100, or five seconds slept.
ZapActivePoll(ok, done, alert) ==
    /\ zap_pc = "ascan_wait"
    /\ IF TimedOut(zap_clock)
       THEN /\ ZapIssue("ascan_stop", ok, "alerts")
            /\ zap_scan_state' = IF ok THEN "stopped" ELSE zap_scan_state
            /\ UNCHANGED <<zap_clock, zap_alerts>>
       ELSE /\ zap_alerts' = MoreAlerts(alert)
            /\ zap_pc' = IF ~ok THEN "returned"
                         ELSE IF done THEN "alerts" ELSE "ascan_wait"
            /\ zap_scan_state' = IF ok /\ done THEN "completed" ELSE zap_scan_state
            /\ zap_clock' = IF ok /\ ~done THEN zap_clock + 1 ELSE zap_clock
            /\ zap_error' = ~ok
            /\ zap_returned' = IF ok THEN NULL ELSE << >>
            /\ UNCHANGED zap_calls
    /\ UNCHANGED zap_config
    /\ UNCHANGED <<workerVars, orchVars, dedupVars, enrichVars, staticVars, agentVars,
                   adapterVars>>

\* core/alerts, each alert converted; scan() returns the findings.
ZapCollectAlerts(ok) ==
    /\ zap_pc = "alerts"
    /\ zap_calls' = Append(zap_calls, "alerts")
    /\ zap_pc' = "returned"
    /\ zap_error' = ~ok
    /\ zap_returned' = IF ok THEN AlertsToFindings(zap_alerts) ELSE << >>
    /\ UNCHANGED <<zap_config, zap_clock, zap_scan_state, zap_alerts>>
    /\ UNCHANGED <<workerVars, orchVars, dedupVars, enrichVars, staticVars, agentVars,
                   adapterVars>>

(***************************************************************************)
(* NucleiEngine.scan and SchemathesisEngine.scan: the temporary results    *)
(* file, the command, the tool's process and the except clauses.           *)
(***************************************************************************)
\* The adapter; the auth_context argument (None, a dict, or the AuthContext
\* object that AuthHandler.authenticate returns and the orchestrator passes
\* on); whether the target has an OpenAPI spec.
AdapterConfigs ==
    [engine : {"nuclei", "schemathesis"}, auth : {NULL, "dict", "AuthContext"},
     spec : BOOLEAN]

\* auth_context.get(...): a dict answers, the AuthContext dataclass has no
\* get() and the call raises AttributeError.
AuthApplies(auth) == auth = "dict"

\* scan() ends in one of its except clauses and returns the findings list.
AdapterRaises(cause, found) ==
    /\ adapter_failure' = cause
    /\ adapter_returned' = found
    /\ adapter_pc' = "returned"

\* SchemathesisEngine.scan without a spec source returns at once.
AdapterNoSpec ==
    /\ adapter_pc = "start"
    /\ adapter_config.engine = "schemathesis"
    /\ ~adapter_config.spec
    /\ adapter_returned' = << >>
    /\ adapter_pc' = "returned"
    /\ UNCHANGED <<adapter_config, temp_file, tool_process, auth_applied,
                   adapter_failure>>
    /\ UNCHANGED <<workerVars, orchVars, dedupVars, enrichVars, staticVars, agentVars,
                   zapVars>>

\* tempfile.NamedTemporaryFile(delete=False): the results file is created.
AdapterCreateTemp ==
    /\ adapter_pc = "start"
    /\ adapter_config.engine = "schemathesis" => adapter_config.spec
    /\ temp_file' = TRUE
    /\ adapter_pc' = "build"
    /\ UNCHANGED <<adapter_config, tool_process, auth_applied, adapter_failure,
                   adapter_returned>>
    /\ UNCHANGED <<workerVars, orchVars, dedupVars, enrichVars, staticVars, agentVars,
                   zapVars>>

\* The command is built; with an auth_context its headers and cookies are
\* added, which raises when the context cannot be read.
AdapterBuildCommand ==
    /\ adapter_pc = "build"
    /\ IF adapter_config.auth = NULL
       THEN /\ adapter_pc' = "launch"
            /\ UNCHANGED <<auth_applied, adapter_failure, adapter_returned>>
       ELSE IF AuthApplies(adapter_config.auth)
       THEN /\ auth_applied' = TRUE
            /\ adapter_pc' = "launch"
            /\ UNCHANGED <<adapter_failure, adapter_returned>>
       ELSE /\ AdapterRaises("AttributeError", << >>)
            /\ UNCHANGED auth_applied
    /\ UNCHANGED <<adapter_config, temp_file, tool_process>>
    /\ UNCHANGED <<workerVars, orchVars, dedupVars, enrichVars, staticVars, agentVars,
                   zapVars>>

\* asyncio.create_subprocess_exec: the tool starts, or is not installed.
AdapterLaunch(installed) ==
    /\ adapter_pc = "launch"
    /\ IF installed
       THEN /\ tool_process' = "running"
            /\ adapter_pc' = "wait"
            /\ UNCHANGED <<adapter_failure, adapter_returned>>
       ELSE /\ AdapterRaises("FileNotFoundError", << >>)
            /\ UNCHANGED tool_process
    /\ UNCHANGED <<adapter_config, temp_file, auth_applied>>
    /\ UNCHANGED <<workerVars, orchVars, dedupVars, enrichVars, staticVars, agentVars,
                   zapVars>>

\* asyncio.wait_for(process.communicate(), timeout): the tool exits in time,
\* or the wait is cancelled with TimeoutError, which leaves the process as
\* it is.
AdapterWait(in_time) ==
    /\ adapter_pc = "wait"
    /\ IF in_time
       THEN /\ tool_process' = "exited"
            /\ adapter_pc' = "parse"
            /\ UNCHANGED <<adapter_failure, adapter_returned>>
       ELSE /\ AdapterRaises("TimeoutError", << >>)
            /\ UNCHANGED tool_process
    /\ UNCHANGED <<adapter_config, temp_file, auth_applied>>
    /\ UNCHANGED <<workerVars, orchVars, dedupVars, enrichVars, staticVars, agentVars,
                   zapVars>>

\* The results are read and the results file unlinked; Schemathesis then
\* deduplicates.  An exception while reading leaves the file.
AdapterParse(found, ok) ==
    /\ adapter_pc = "parse"
    /\ found \in SeqsUpTo(EnginePool(adapter_config.engine), MaxEngineFindings)
    /\ IF ok
       THEN /\ temp_file' = FALSE
            /\ adapter_returned' = IF adapter_config.engine = "schemathesis"
                                   THEN FirstSeen(found, {})
                                   ELSE found
            /\ adapter_pc' = "returned"
            /\ UNCHANGED adapter_failure
       ELSE /\ found = << >>
            /\ AdapterRaises("Exception", << >>)
            /\ UNCHANGED temp_file
    /\ UNCHANGED <<adapter_config, tool_process, auth_applied>>
    /\ UNCHANGED <<workerVars, orchVars, dedupVars, enrichVars, staticVars, agentVars,
                   zapVars>>

(***************************************************************************)
(* Specifications.                                                         *)
(***************************************************************************)

\* No scan() call and no _deduplicate_findings call is in progress.
OrchIdle ==
    /\ target = [openapi_spec_url |-> NULL, openapi_spec_content |-> NULL]
    /\ scan_type = "QUICK"
    /\ auth_config = NULL
    /\ phase = "returned"
    /\ auth_context = NULL
    /\ auth_method = NULL
    /\ all_findings = << >>
    /\ parsed_findings = << >>
    /\ engines_used = << >>
    /\ invoked = << >>
    /\ in_flight = {}
    /\ failed_engines = {}
    /\ status_log = << >>
    /\ callback_log = [c \in Callbacks |-> << >>]
    /\ raising_callbacks = {}
    /\ result = NoResult

DedupIdle ==
    /\ dedupInput = << >>
    /\ unique = << >>
    /\ deduplicated = TRUE

\* No finding is being enriched.
EnrichIdle ==
    /\ enriched = [cwe_id |-> << >>, owasp_category |-> << >>, type |-> "none"]
    /\ enabled_frameworks = Frameworks
    /\ CWE_MAPPINGS = CweMappings
    /\ OWASP_MAPPINGS = OwaspMappings
    /\ map_results = << >>
    /\ remediation_types = << >>

\* No adapter call is in progress.
AdapterIdle ==
    /\ adapter_config = [engine |-> "nuclei", auth |-> NULL, spec |-> FALSE]
    /\ adapter_pc = "start"
    /\ temp_file = FALSE
    /\ tool_process = "none"
    /\ auth_applied = FALSE
    /\ adapter_failure = NULL
    /\ adapter_returned = NULL

\* No ZAPEngine.scan is in progress.
ZapIdle ==
    /\ zap_config = [auth |-> NULL, spec |-> FALSE, ajax_spider |-> TRUE]
    /\ zap_pc = "start_zap"
    /\ zap_calls = << >>
    /\ zap_clock = 0
    /\ zap_scan_state = "none"
    /\ zap_alerts = << >>
    /\ zap_error = FALSE
    /\ zap_returned = NULL

\* The agent's command is not being run.
AgentIdle ==
    /\ fail_on = "high"
    /\ upload_configured = FALSE
    /\ agent_pc = "start"
    /\ agent_result = [status |-> NULL, findings |-> << >>]
    /\ upload_state = "none"
    /\ exit_code = NULL

\* No document is being scanned.
StaticIdle ==
    /\ openapi = [security |-> << >>, schemes |-> EmptyMap, operations |-> << >>]
    /\ static_findings = << >>
    /\ cursor = 0
    /\ static_done = FALSE

\* No job is queued or in progress and the tables hold the QUEUED scans only.
WorkerIdle ==
    /\ scanRows = [s \in Scans |-> [projectId |-> NULL,
                                    environment |-> "PRODUCTION",
                                    status |-> "QUEUED"]]
    /\ findingRows = << >>
    /\ queue = << >>
    /\ clock = 1
    /\ pc = [w \in Workers |-> "idle"]
    /\ job = [w \in Workers |-> NoJob]
    /\ previous_findings = [w \in Workers |-> EmptyMap]
    /\ pending = [w \in Workers |-> << >>]
    /\ txAborted = [w \in Workers |-> FALSE]
    /\ conn = [w \in Workers |-> "none"]
    /\ nJobs = MaxJobs
    /\ nTriage = MaxTriage
    /\ nSkipped = 0

\* The worker processes and their environment.
Init ==
    WorkerInit /\ OrchIdle /\ DedupIdle /\ EnrichIdle /\ StaticIdle /\ AgentIdle
    /\ ZapIdle
    /\ AdapterIdle

Next ==
    \/ \E s \in Scans, spec \in SpecContents : Enqueue(s, spec)
    \/ \E i \in DOMAIN findingRows, st \in FindingStatuses, edit \in BOOLEAN :
         Triage(i, st, edit)
    \/ \E msg \in MalformedMessages : EnqueueMalformed(msg)
    \/ \E w \in Workers : BlPop(w)
    \/ \E w \in Workers : SkipMessage(w)
    \/ \E w \in Workers, ok \in BOOLEAN : MarkProcessing(w, ok)
    \/ \E w \in Workers, fault \in Faults : Reconcile(w, fault)
    \/ \E w \in Workers, ok \in BOOLEAN : Complete(w, ok)
    \/ \E w \in Workers : Notify(w)
    \/ \E w \in Workers, ok \in BOOLEAN : MarkFailed(w, ok)

Spec == Init /\ [][Next]_vars

\* One call of scan(target, scan_type, auth_config).
OrchInit ==
    /\ WorkerIdle
    /\ DedupIdle
    /\ EnrichIdle
    /\ StaticIdle
    /\ AgentIdle
    /\ ZapIdle
    /\ AdapterIdle
    /\ target \in ScanTargets
    /\ scan_type \in ScanTypes
    /\ auth_config \in AuthConfigs
    /\ phase = "start"
    /\ auth_context = NULL
    /\ auth_method = NULL
    /\ all_findings = << >>
    /\ parsed_findings = << >>
    /\ engines_used = << >>
    /\ invoked = << >>
    /\ in_flight = {}
    /\ failed_engines = {}
    /\ status_log = << >>
    /\ callback_log = [c \in Callbacks |-> << >>]
    /\ raising_callbacks \in SUBSET Callbacks
    /\ result = NoResult

OrchNext ==
    \/ \E authenticated \in BOOLEAN : Initialize(authenticated)
    \/ QuickCall
    \/ FuzzCall
    \/ DastCall
    \/ \E fs \in SeqsUpTo(EnginePool("nuclei"), MaxEngineFindings),
          failed \in BOOLEAN : QuickScan(fs, failed)
    \/ \E fs \in SeqsUpTo(EnginePool("schemathesis"), MaxEngineFindings),
          failed \in BOOLEAN : FuzzScan(fs, failed)
    \/ \E fs \in SeqsUpTo(EnginePool("zap"), MaxEngineFindings),
          failed \in BOOLEAN : DastScan(fs, failed)
    \/ Analyze

OrchSpec == OrchInit /\ [][OrchNext]_vars

\* The enrichment of one finding by a mapper configured with a subset of the
\* frameworks: map_finding and get_remediation, each called up to MaxCalls times.
EnrichInit ==
    /\ WorkerIdle
    /\ OrchIdle
    /\ DedupIdle
    /\ StaticIdle
    /\ AgentIdle
    /\ ZapIdle
    /\ AdapterIdle
    /\ enriched \in [cwe_id : CweIds, owasp_category : OwaspCategories,
                      type : FindingTypes]
    /\ enabled_frameworks \in SUBSET Frameworks
    /\ CWE_MAPPINGS = CweMappings
    /\ OWASP_MAPPINGS = OwaspMappings
    /\ map_results = << >>
    /\ remediation_types = << >>

EnrichNext == MapFinding \/ GetRemediation

EnrichSpec == EnrichInit /\ [][EnrichNext]_vars

\* The entries of a document: distinct (path, key) pairs, at most MaxOperations.
Entries == [path : Paths, method : MethodKeys, operation : Operations]

Documents ==
    { d \in [security : GlobalSecurity, schemes : SchemeTables,
             operations : SeqsUpTo(Entries, MaxOperations)] :
        \A i, j \in DOMAIN d.operations :
            ( /\ d.operations[i].path = d.operations[j].path
              /\ d.operations[i].method = d.operations[j].method ) => i = j }

\* One OWASPScanner(spec).scan() over a document.
StaticInit ==
    /\ WorkerIdle
    /\ OrchIdle
    /\ DedupIdle
    /\ EnrichIdle
    /\ AgentIdle
    /\ ZapIdle
    /\ AdapterIdle
    /\ openapi \in Documents
    /\ static_findings = << >>
    /\ cursor = 0
    /\ static_done = FALSE

StaticNext == ScanEndpoint \/ SkipEntry \/ CheckGlobalSecurity

StaticSpec == StaticInit /\ [][StaticNext]_vars

\* One run of the agent's scan command.
AgentInit ==
    /\ WorkerIdle
    /\ OrchIdle
    /\ DedupIdle
    /\ EnrichIdle
    /\ StaticIdle
    /\ ZapIdle
    /\ AdapterIdle
    /\ fail_on \in FailOnChoices
    /\ upload_configured \in BOOLEAN
    /\ agent_pc = "start"
    /\ agent_result = [status |-> NULL, findings |-> << >>]
    /\ upload_state = "none"
    /\ exit_code = NULL

AgentNext ==
    \/ \E agent_findings \in AgentFindings : AgentScanCompletes(agent_findings)
    \/ \E agent_findings \in AgentFindings : AgentScanFails(agent_findings)
    \/ \E exc \in {"KeyboardInterrupt", "Exception"} : AgentScanRaises(exc)
    \/ \E ok \in BOOLEAN : AgentReport(ok)
    \/ AgentExit

AgentSpec == AgentInit /\ [][AgentNext]_vars

\* One ZAPEngine.scan call.
ZapInit ==
    /\ WorkerIdle
    /\ OrchIdle
    /\ DedupIdle
    /\ EnrichIdle
    /\ StaticIdle
    /\ AgentIdle
    /\ AdapterIdle
    /\ zap_config \in ZapConfigs
    /\ zap_pc = "start_zap"
    /\ zap_calls = << >>
    /\ zap_clock = 0
    /\ zap_scan_state = "none"
    /\ zap_alerts = << >>
    /\ zap_error = FALSE
    /\ zap_returned = NULL

ZapNext ==
    \/ \E started \in BOOLEAN : ZapStartZap(started)
    \/ \E ok \in BOOLEAN : ZapNewSession(ok)
    \/ \E ok \in BOOLEAN : ZapConfigureAuth(ok)
    \/ ZapImportOpenapi
    \/ \E ok \in BOOLEAN : ZapIncludeInContext(ok)
    \/ ZapExcludePaths
    \/ \E ok \in BOOLEAN : ZapSpider(ok)
    \/ \E ok, done \in BOOLEAN, alert \in ZapRisks \cup {NULL} :
            ZapSpiderPoll(ok, done, alert)
    \/ \E ok \in BOOLEAN : ZapAjaxSpider(ok)
    \/ \E ok, done \in BOOLEAN, alert \in ZapRisks \cup {NULL} :
            ZapAjaxPoll(ok, done, alert)
    \/ ZapSleep
    \/ \E ok \in BOOLEAN : ZapActiveScan(ok)
    \/ \E ok, done \in BOOLEAN, alert \in ZapRisks \cup {NULL} :
            ZapActivePoll(ok, done, alert)
    \/ \E ok \in BOOLEAN : ZapCollectAlerts(ok)

ZapSpec == ZapInit /\ [][ZapNext]_vars

\* scan() is a coroutine of a running event loop: a step it can take is
\* taken.  What the proxy answers is not constrained.
ZapFairSpec == ZapInit /\ [][ZapNext]_vars /\ WF_vars(ZapNext)

\* What either tool can report.
AdapterOutputs ==
    SeqsUpTo(EnginePool("nuclei") \cup EnginePool("schemathesis"), MaxEngineFindings)

\* One NucleiEngine.scan or SchemathesisEngine.scan call.
AdapterInit ==
    /\ WorkerIdle
    /\ OrchIdle
    /\ DedupIdle
    /\ EnrichIdle
    /\ StaticIdle
    /\ AgentIdle
    /\ ZapIdle
    /\ adapter_config \in AdapterConfigs
    /\ adapter_pc = "start"
    /\ temp_file = FALSE
    /\ tool_process = "none"
    /\ auth_applied = FALSE
    /\ adapter_failure = NULL
    /\ adapter_returned = NULL

AdapterNext ==
    \/ AdapterNoSpec
    \/ AdapterCreateTemp
    \/ AdapterBuildCommand
    \/ \E installed \in BOOLEAN : AdapterLaunch(installed)
    \/ \E in_time \in BOOLEAN : AdapterWait(in_time)
    \/ \E found \in AdapterOutputs, ok \in BOOLEAN : AdapterParse(found, ok)

AdapterSpec == AdapterInit /\ [][AdapterNext]_vars

\* One call of _deduplicate_findings(findings).
DedupInit ==
    /\ WorkerIdle
    /\ OrchIdle
    /\ EnrichIdle
    /\ StaticIdle
    /\ AgentIdle
    /\ ZapIdle
    /\ AdapterIdle
    /\ dedupInput \in SeqsUpTo(DedupFindings, MaxDedupLen)
    /\ unique = << >>
    /\ deduplicated = FALSE

DedupNext == Deduplicate

DedupSpec == DedupInit /\ [][DedupNext]_vars

(***************************************************************************)
(* Properties of the worker and reconciler.                                *)
(***************************************************************************)

StatusRank(st) ==
    CASE st = "QUEUED" -> 0
      [] st = "PROCESSING" -> 1
      [] OTHER -> 2

NaturalKeys == { NaturalKey(f) : f \in FindingDicts }

\* The persisted rows with natural key K of COMPLETED scans of a project and
\* environment, and the most recent among them.
PriorRows(p, e, K) ==
    { i \in DOMAIN findingRows :
        /\ NaturalKey(findingRows[i].finding) = K
        /\ scanRows[findingRows[i].scanId].projectId = p
        /\ scanRows[findingRows[i].scanId].environment = e
        /\ scanRows[findingRows[i].scanId].status = "COMPLETED" }

MostRecentPrior(p, e, K) ==
    { i \in PriorRows(p, e, K) :
        \A j \in PriorRows(p, e, K) :
            findingRows[j].createdAt <= findingRows[i].createdAt }

\* The most recent persisted status of K is one of sts.
PriorStatusIn(p, e, K, sts) ==
    /\ p # NULL
    /\ MostRecentPrior(p, e, K) # {}
    /\ \A i \in MostRecentPrior(p, e, K) : findingRows[i].status \in sts

BeginsWithRegression(notes) == Len(notes) >= 1 /\ notes[1] = "REGRESSION:"

\* Worker w performs the step of process_scan that reads the prior state and
\* executes the INSERTs.
Reconciles(w) == pc[w] = "processing" /\ pc'[w] = "completing"

InsertedFor(w, K) ==
    { i \in DOMAIN pending'[w] : NaturalKey(pending'[w][i].finding) = K }

OccurrencesOf(w, K) ==
    { i \in DOMAIN job[w].specContent.findings :
        NaturalKey(job[w].specContent.findings[i]) = K }

\* C1: the persisted status of a Scan row only moves forward along
\* QUEUED -> PROCESSING -> (COMPLETED | FAILED); a COMPLETED or FAILED row is
\* never written again.
C1_StatusMonotonic ==
    [][\A s \in Scans :
          /\ StatusRank(scanRows'[s].status) >= StatusRank(scanRows[s].status)
          /\ scanRows[s].status \in {"COMPLETED", "FAILED"}
                => scanRows'[s].status = scanRows[s].status]_vars

C3_RegressionReopened ==
    [][\A w \in Workers : Reconciles(w) =>
          LET scan == scanRows[job[w].scanId]
          IN  \A K \in NaturalKeys :
                PriorStatusIn(scan.projectId, scan.environment, K, {"FIXED"})
                    => /\ Cardinality(InsertedFor(w, K)) = Cardinality(OccurrencesOf(w, K))
                       /\ \A i \in InsertedFor(w, K) :
                            LET row == pending'[w][i]
                            IN  /\ row.scanId = job[w].scanId
                                /\ row.status = "OPEN"
                                /\ BeginsWithRegression(row.resolutionNotes)
                                /\ \E j \in MostRecentPrior(scan.projectId,
                                                           scan.environment, K) :
                                      row.assignedTo = findingRows[j].assignedTo]_vars

\* A regression row for a finding that was assigned when it was fixed.
C3_Witness ==
    \E w \in Workers :
        /\ pc[w] = "completing"
        /\ \E i \in DOMAIN pending[w] :
              /\ pending[w][i].status = "OPEN"
              /\ BeginsWithRegression(pending[w][i].resolutionNotes)
              /\ pending[w][i].assignedTo = "alice"
              /\ previous_findings[w][NaturalKey(pending[w][i].finding)].status = "FIXED"

\* C4: when the most recent prior row of a current finding's natural key is
\* OPEN or IN_PROGRESS, process_scan inserts for it a row of the current scan
\* whose status, notes and assignee are those of that prior row.
C4_OpenStateInherited ==
    [][\A w \in Workers : Reconciles(w) =>
          LET scan == scanRows[job[w].scanId]
          IN  \A K \in NaturalKeys :
                PriorStatusIn(scan.projectId, scan.environment, K,
                              {"OPEN", "IN_PROGRESS"})
                    => /\ Cardinality(InsertedFor(w, K)) = Cardinality(OccurrencesOf(w, K))
                       /\ \A i \in InsertedFor(w, K) :
                            LET row == pending'[w][i]
                            IN  /\ row.scanId = job[w].scanId
                                /\ \E j \in MostRecentPrior(scan.projectId,
                                                           scan.environment, K) :
                                      /\ row.status = findingRows[j].status
                                      /\ row.resolutionNotes = findingRows[j].resolutionNotes
                                      /\ row.assignedTo = findingRows[j].assignedTo]_vars

\* A row that inherits IN_PROGRESS, the notes and the assignee of its prior row.
C4_Witness ==
    \E w \in Workers :
        /\ pc[w] = "completing"
        /\ \E i \in DOMAIN pending[w] :
              /\ pending[w][i].status = "IN_PROGRESS"
              /\ pending[w][i].resolutionNotes = <<"triaged">>
              /\ pending[w][i].assignedTo = "alice"

\* C5: when no COMPLETED scan of the same project and environment has a row
\* with the natural key of a current finding, or the scan has no project,
\* process_scan inserts for it a row with status OPEN and null notes and assignee.
C5_NewFindingOpen ==
    [][\A w \in Workers : Reconciles(w) =>
          LET scan == scanRows[job[w].scanId]
          IN  \A K \in NaturalKeys :
                (scan.projectId = NULL
                   \/ PriorRows(scan.projectId, scan.environment, K) = {})
                    => /\ Cardinality(InsertedFor(w, K)) = Cardinality(OccurrencesOf(w, K))
                       /\ \A i \in InsertedFor(w, K) :
                            LET row == pending'[w][i]
                            IN  /\ row.scanId = job[w].scanId
                                /\ row.status = "OPEN"
                                /\ row.resolutionNotes = NullNotes
                                /\ row.assignedTo = NULL]_vars

\* A scan without project inserts a fresh row although the table already
\* holds a row with the same natural key.
C5_Witness ==
    \E w \in Workers :
        /\ pc[w] = "completing"
        /\ scanRows[job[w].scanId].projectId = NULL
        /\ \E i \in DOMAIN pending[w], j \in DOMAIN findingRows :
              /\ NaturalKey(findingRows[j].finding) = NaturalKey(pending[w][i].finding)
              /\ findingRows[j].status # "OPEN"
              /\ pending[w][i].status = "OPEN"

C7_PoppedJobSettled ==
    [][\A w \in Workers :
          (pc[w] # "idle" /\ pc'[w] = "idle")
              => scanRows'[job[w].scanId].status \in {"COMPLETED", "FAILED"}]_vars

(***************************************************************************)
(* Properties of the scan orchestrator.                                    *)
(***************************************************************************)

\* The positions of the input findings that share the key of position i.
SameKeyAs(i) ==
    { j \in DOMAIN dedupInput : DedupKey(dedupInput[j]) = DedupKey(dedupInput[i]) }

RankAt(i) == _severity_rank(dedupInput[i].severity)

\* Position i holds the first finding of maximum rank among those of its key.
FirstOfMaximumRank(i) ==
    \A j \in SameKeyAs(i) :
        RankAt(j) < RankAt(i) \/ (RankAt(j) = RankAt(i) /\ i <= j)

\* C8: _deduplicate_findings returns exactly one finding per distinct key
\* (type, endpoint, method, parameter) of its input; that finding is an input
\* finding of the maximum severity rank among the input findings with the key,
\* and the first in input order among those of maximum rank.
C8_DedupKeepsFirstMaximum ==
    deduplicated =>
        /\ \A u, v \in DOMAIN unique :
              u # v => DedupKey(unique[u]) # DedupKey(unique[v])
        /\ { DedupKey(unique[u]) : u \in DOMAIN unique }
              = { DedupKey(dedupInput[i]) : i \in DOMAIN dedupInput }
        /\ \A u \in DOMAIN unique :
              \E i \in DOMAIN dedupInput :
                  /\ DedupKey(dedupInput[i]) = DedupKey(unique[u])
                  /\ FirstOfMaximumRank(i)
                  /\ unique[u] = dedupInput[i]

\* Three findings of one key: the second outranks the first and replaces it,
\* the third ties with the second, comes from another engine, and is dropped.
C8_Witness ==
    /\ deduplicated
    /\ Len(dedupInput) = 3
    /\ SameKeyAs(1) = {1, 2, 3}
    /\ RankAt(1) < RankAt(2)
    /\ RankAt(2) = RankAt(3)
    /\ dedupInput[2] # dedupInput[3]
    /\ unique = << dedupInput[2] >>

SeverityWeight(sev) ==
    CASE sev = "CRITICAL" -> 25
      [] sev = "HIGH" -> 15
      [] sev = "MEDIUM" -> 5
      [] sev = "LOW" -> 2
      [] sev = "INFO" -> 0

RECURSIVE SumOfWeights(_, _)
SumOfWeights(fs, n) ==
    IF n = 0 THEN 0 ELSE SeverityWeight(fs[n].severity) + SumOfWeights(fs, n - 1)

ExampleFindings ==
    << Finding("zap", "a", "/a", "GET", NULL, "CRITICAL"),
       Finding("zap", "b", "/b", "GET", NULL, "HIGH"),
       Finding("zap", "c", "/c", "GET", NULL, "HIGH"),
       Finding("zap", "d", "/d", "GET", NULL, "MEDIUM"),
       Finding("zap", "e", "/e", "GET", NULL, "LOW") >>

\* C9: the risk_score of a COMPLETED ScanResult is the smaller of 100 and the
\* sum of the weights (CRITICAL 25, HIGH 15, MEDIUM 5, LOW 2, INFO 0) of the
\* result's findings, hence within 0..100; severities CRITICAL, HIGH, HIGH,
\* MEDIUM, LOW score 62; the risk_score of a FAILED ScanResult is 0.
C9_RiskScore ==
    /\ result.status = "COMPLETED" =>
          LET total == SumOfWeights(result.findings, Len(result.findings))
          IN  /\ result.risk_score = (IF total < 100 THEN total ELSE 100)
              /\ result.risk_score \in 0..100
              /\ result.findings = all_findings
    /\ result.status = "FAILED" => result.risk_score = 0
    /\ _calculate_risk_score(ExampleFindings) = 62

\* A COMPLETED result whose weights sum to more than 100 and whose score is 100.
C9_Witness ==
    /\ result.status = "COMPLETED"
    /\ SumOfWeights(result.findings, Len(result.findings)) > 100
    /\ result.risk_score = 100

SpecPresent ==
    \/ target.openapi_spec_url \notin {NULL, ""}
    \/ target.openapi_spec_content \notin {NULL, ""}

\* The engines the scan type and the presence of a spec call for, in order.
ExpectedEngines ==
    <<"nuclei">>
    \o (IF scan_type \in {"STANDARD", "FULL", "CONTINUOUS"} /\ SpecPresent
        THEN <<"schemathesis">> ELSE << >>)
    \o (IF scan_type \in {"FULL", "CONTINUOUS"} THEN <<"zap">> ELSE << >>)

IsPrefix(a, b) == Len(a) <= Len(b) /\ a = SubSeq(b, 1, Len(a))

Called(engine) == \E i \in DOMAIN invoked : invoked[i] = engine

\* C10: scan() calls only engines its scan type and the presence of an
\* OpenAPI spec call for, and a scan that runs to completion has called exactly
\* these: nuclei always, schemathesis iff the type is not QUICK and a spec URL
\* or content is present, zap iff the type is FULL or CONTINUOUS.  The fuzzer
\* is never called without a spec, zap never for QUICK or STANDARD.
C10_EngineSelection ==
    /\ IsPrefix(invoked, ExpectedEngines)
    /\ result.status = "COMPLETED" => invoked = ExpectedEngines
    /\ Called("schemathesis") => SpecPresent /\ scan_type # "QUICK"
    /\ Called("zap") => scan_type \notin {"QUICK", "STANDARD"}

\* A FULL scan of a target without spec has returned after calling the
\* template engine and the DAST engine, and not the fuzzer.
C10_Witness ==
    /\ phase = "returned"
    /\ result.status = "COMPLETED"
    /\ scan_type = "FULL"
    /\ ~SpecPresent
    /\ invoked = <<"nuclei", "zap">>

\* The place of a state in the documented progression, and its percentage.
StatusIndex(st) ==
    CASE st = "INITIALIZING" -> 1
      [] st = "AUTHENTICATING" -> 2
      [] st = "SCANNING_QUICK" -> 3
      [] st = "SCANNING_FUZZING" -> 4
      [] st = "SCANNING_DAST" -> 5
      [] st = "ANALYZING" -> 6
      [] st = "GENERATING_REPORT" -> 7
      [] st = "COMPLETED" -> 8

ProgressOf(st) ==
    CASE st = "INITIALIZING" -> 5
      [] st = "AUTHENTICATING" -> 10
      [] st = "SCANNING_QUICK" -> 15
      [] st = "SCANNING_FUZZING" -> 35
      [] st = "SCANNING_DAST" -> 55
      [] st = "ANALYZING" -> 85
      [] st = "COMPLETED" -> 100

ProgressionStates ==
    {"INITIALIZING", "AUTHENTICATING", "SCANNING_QUICK", "SCANNING_FUZZING",
     "SCANNING_DAST", "ANALYZING", "GENERATING_REPORT", "COMPLETED"}

\* C11: the states a status callback receives during one scan() are, in
\* order and without repetition, states of the progression INITIALIZING(5),
\* AUTHENTICATING(10), SCANNING_QUICK(15), SCANNING_FUZZING(35),
\* SCANNING_DAST(55), ANALYZING(85), GENERATING_REPORT, COMPLETED(100), each
\* with its percentage; FAILED can only be the last notification, nothing
\* follows COMPLETED, and the percentage never decreases before the terminal
\* notification.
C11_StatusProgression ==
    \A i \in DOMAIN status_log :
        LET st == status_log[i][1]
            progress == status_log[i][2]
        IN  /\ st \in ProgressionStates \cup {"FAILED"}
            /\ st \in {"FAILED", "COMPLETED"} => i = Len(status_log)
            /\ st # "FAILED" =>
                  /\ st # "GENERATING_REPORT" => progress = ProgressOf(st)
                  /\ \A j \in DOMAIN status_log :
                        (i < j /\ status_log[j][1] # "FAILED") =>
                            /\ StatusIndex(st) < StatusIndex(status_log[j][1])
                            /\ progress <= status_log[j][2]

\* An authenticated FULL scan with a spec has notified every state it passes.
C11_Witness ==
    status_log = << <<"INITIALIZING", 5>>, <<"AUTHENTICATING", 10>>,
                    <<"SCANNING_QUICK", 15>>, <<"SCANNING_FUZZING", 35>>,
                    <<"SCANNING_DAST", 55>>, <<"ANALYZING", 85>>,
                    <<"COMPLETED", 100>> >>

InvokedEngines == { invoked[i] : i \in DOMAIN invoked }

C13_AuthFailureFails ==
    /\ [][Initialize(FALSE) =>
              /\ invoked' = << >>
              /\ status_log'[Len(status_log')] = <<"FAILED", 0>>
              /\ result'.status = "FAILED"
              /\ result'.findings = << >>
              /\ result'.risk_score = 0
              /\ result'.error
              /\ phase' = "returned"]_vars
    /\ [](result.status = "FAILED" => invoked = << >> /\ phase = "returned")

\* A scan with an auth_config has returned FAILED without calling an engine.
C13_Witness ==
    /\ auth_config # NULL
    /\ phase = "returned"
    /\ result.status = "FAILED"
    /\ result.error
    /\ invoked = << >>
    /\ status_log[Len(status_log)][1] = "FAILED"

\* C14: engines_used of the ScanResult lists exactly the engines whose phase
\* ran and whose adapter succeeded; an engine whose adapter failed is not
\* recorded.
C14_EnginesUsedSucceeded ==
    (phase = "returned" /\ result.status = "COMPLETED") =>
        { result.engines_used[i] : i \in DOMAIN result.engines_used }
            = InvokedEngines \ failed_engines

(***************************************************************************)
(* Further properties of the worker.                                       *)
(***************************************************************************)

\* C15: when run_worker takes from the queue a message that is not valid
\* JSON, is not a JSON object, or lacks scanId or specContent, no Scan row and
\* no Finding row is written and the worker keeps polling; and no worker ever
\* leaves the run_worker loop, whatever the message and whatever process_scan
\* raises.
C15_MalformedSkipped ==
    /\ [][(queue # << >> /\ ~WellFormed(Head(queue)) /\ queue' = Tail(queue)) =>
              /\ scanRows' = scanRows
              /\ findingRows' = findingRows
              /\ \A w \in Workers : pc[w] = "idle" => pc'[w] = "idle"]_vars
    /\ [](\A w \in Workers : pc[w] # "stopped")

\* The workers have skipped a message and completed a scan, and all poll
\* the empty queue.
C15_Witness ==
    /\ nSkipped >= 1
    /\ queue = << >>
    /\ \A w \in Workers : pc[w] = "idle"
    /\ \E s \in Scans : scanRows[s].status = "COMPLETED"
    /\ findingRows # << >>

\* C16: a worker comes to the completion notification only by the step that
\* commits its scan's COMPLETED status together with the scan's rows, and
\* the notification, whatever its outcome, changes no Scan row and no
\* Finding row.
C16_NotificationAfterCommit ==
    [][\A w \in Workers :
          /\ (pc[w] # "notify" /\ pc'[w] = "notify") =>
                /\ pc[w] = "completing"
                /\ scanRows'[job'[w].scanId].status = "COMPLETED"
                /\ findingRows' = findingRows \o pending[w]
          /\ (pc[w] = "notify" /\ pc'[w] # "notify") =>
                /\ scanRows' = scanRows
                /\ findingRows' = findingRows
                /\ pc'[w] = "idle"]_vars

\* A worker is at the notification of a COMPLETED scan that has rows.
C16_Witness ==
    \E w \in Workers :
        /\ pc[w] = "notify"
        /\ scanRows[job[w].scanId].status = "COMPLETED"
        /\ \E i \in DOMAIN findingRows : findingRows[i].scanId = job[w].scanId

\* C17: when the prior-state lookup query raises, process_scan reconciles as
\* if no prior state existed: it goes on to the COMPLETED update with one row
\* of status OPEN, null notes and null assignee for every current finding.
C17_LookupFailureIgnored ==
    [][\A w \in Workers :
          (pc[w] = "processing" /\ Reconcile(w, "lookup")) =>
              /\ pc'[w] = "completing"
              /\ pending'[w] = ReconcileAll(job[w].scanId,
                                            job[w].specContent.findings,
                                            EmptyMap, clock)]_vars

\* The control ids a table lists for a framework under the keys given.
ListedControls(table, keys, fw) ==
    UNION { { table[k][fw][i] : i \in DOMAIN table[k][fw] } :
              k \in { key \in keys : fw \in DOMAIN table[key] } }

\* The entries of CWE_MAPPINGS for the finding's CWE number, with or without
\* its "CWE-" prefix, and of OWASP_MAPPINGS for the id that opens its category.
CweEntries(f) ==
    { k \in DOMAIN CweMappings : f.cwe_id # << >> /\ k[2] = f.cwe_id[Len(f.cwe_id)] }

OwaspEntries(f) ==
    { k \in DOMAIN OwaspMappings : f.owasp_category # << >> /\ k[1] = f.owasp_category[1] }

ControlsOf(mapping, fw) == IF fw \in DOMAIN mapping THEN mapping[fw] ELSE {}

\* C18: every map_finding result holds, for each enabled framework, exactly the
\* union of the control ids CWE_MAPPINGS lists for the finding's CWE and
\* OWASP_MAPPINGS lists for its OWASP id (a framework with none is absent);
\* for CWE-639 with API1:2023 soc2 is {CC6.1, CC6.3, CC6.6}; no framework
\* outside the configured subset appears; two calls on the same finding return
\* equal results and the lookup tables stay as they were.
C18_MapFindingUnion ==
    /\ CWE_MAPPINGS = CweMappings
    /\ OWASP_MAPPINGS = OwaspMappings
    /\ \A i \in DOMAIN map_results :
        /\ DOMAIN map_results[i] \subseteq enabled_frameworks
        /\ \A fw \in enabled_frameworks :
              ControlsOf(map_results[i], fw)
                = ListedControls(CweMappings, CweEntries(enriched), fw)
                  \cup ListedControls(OwaspMappings, OwaspEntries(enriched), fw)
        /\ \A fw \in DOMAIN map_results[i] : map_results[i][fw] # {}
        /\ \A j \in DOMAIN map_results : map_results[i] = map_results[j]
        /\ ( /\ enriched.cwe_id = <<"CWE-", "639">>
             /\ SplitFirst(enriched.owasp_category, " - ") = <<"API1:2023">>
             /\ "soc2" \in enabled_frameworks )
           => map_results[i]["soc2"] = {"CC6.1", "CC6.3", "CC6.6"}

\* Two calls on a CWE-639 / API1:2023 finding by a mapper configured with soc2
\* and pci_dss only.
C18_Witness ==
    /\ Len(map_results) = 2
    /\ enriched.cwe_id = <<"CWE-", "639">>
    /\ enriched.owasp_category
         = <<"API1:2023", " - ", "Broken Object Level Authorization">>
    /\ enabled_frameworks = {"soc2", "pci_dss"}
    /\ DOMAIN map_results[2] = {"soc2", "pci_dss"}
    /\ "7.1.1" \in map_results[2]["pci_dss"]

\* The keyword groups of the dispatcher in the order they are tried.
KeywordGroups ==
    << [tag |-> "sql_injection", keys |-> {"sql", "injection", "sqli"}],
       [tag |-> "xss", keys |-> {"xss", "cross-site scripting", "script"}],
       [tag |-> "bola", keys |-> {"bola", "idor", "authorization"}],
       [tag |-> "broken_auth", keys |-> {"auth", "login", "password"}],
       [tag |-> "rate_limiting", keys |-> {"rate", "limit", "dos", "throttl"}],
       [tag |-> "ssrf", keys |-> {"ssrf", "server-side request"}] >>

\* The tag of the first source that knows the finding: the CWE table, the
\* OWASP table, the first keyword group with a keyword in the lower-case type,
\* the generic template.
FirstMatch(f) ==
    LET cwes == { k \in DOMAIN CWE_TO_TYPE :
                    f.cwe_id # << >> /\ k[2] = f.cwe_id[Len(f.cwe_id)] }
        owasps == { k \in DOMAIN OWASP_TO_TYPE :
                    f.owasp_category # << >> /\ k[1] = f.owasp_category[1] }
        groups == { g \in DOMAIN KeywordGroups :
                    KeywordGroups[g].keys \cap KeywordsIn(Lower(f.type)) # {} }
    IN  IF cwes # {} THEN CWE_TO_TYPE[CHOOSE k \in cwes : TRUE]
        ELSE IF owasps # {} THEN OWASP_TO_TYPE[CHOOSE k \in owasps : TRUE]
        ELSE IF groups # {}
        THEN KeywordGroups[CHOOSE g \in groups : \A h \in groups : g <= h].tag
        ELSE "generic"

\* C19: every get_remediation call returns the tag of the first match in the
\* order CWE table, OWASP table, type keywords, generic template; a finding
\* with CWE-89 (sql_injection) and API1:2023 (bola) gets sql_injection; and
\* repeated calls on the same finding return the same tag.
C19_RemediationFirstMatch ==
    \A i \in DOMAIN remediation_types :
        /\ remediation_types[i] = FirstMatch(enriched)
        /\ \A j \in DOMAIN remediation_types :
              remediation_types[i] = remediation_types[j]
        /\ ( /\ enriched.cwe_id = <<"CWE-", "89">>
             /\ enriched.owasp_category # << >>
             /\ enriched.owasp_category[1] = "API1:2023" )
           => remediation_types[i] = "sql_injection"

\* Two calls on a finding whose CWE names sql_injection, whose OWASP category
\* names bola and whose type holds a broken_auth keyword.
C19_Witness ==
    /\ remediation_types = <<"sql_injection", "sql_injection">>
    /\ enriched.cwe_id = <<"CWE-", "89">>
    /\ enriched.owasp_category
         = <<"API1:2023", " - ", "Broken Object Level Authorization">>
    /\ enriched.type = "login-panel"

\* The path holds a parameter that one of the ID patterns matches.
HasIdParameter(path) == \E k \in DOMAIN ID_PATTERNS : Search(ID_PATTERNS[k], path)

\* The security in force for an entry: its own when it declares one, the
\* document's otherwise.
EffectiveSecurity(entry) ==
    IF "security" \in DOMAIN entry.operation
    THEN entry.operation["security"]
    ELSE openapi.security

\* The BOLA findings reported for an entry.
BolaFindingsOf(entry) ==
    { i \in DOMAIN static_findings :
        /\ static_findings[i].type = "BOLA"
        /\ static_findings[i].endpoint = entry.path
        /\ static_findings[i].method = Upper(entry.method) }

\* C20: once scan() has handled an operation (a path under one of the seven
\* methods) whose path has a parameter matching the ID patterns, the findings
\* hold exactly one BOLA finding for it, with CWE-639, API1:2023 - Broken
\* Object Level Authorization, HIGH when no security is in force for the
\* operation and MEDIUM otherwise; any other entry has no BOLA finding, and
\* every BOLA finding belongs to a handled operation.
C20_OneBolaPerIdOperation ==
    /\ \A n \in 1..Len(openapi.operations) :
        LET entry == openapi.operations[n]
        IN  IF /\ n <= cursor
               /\ Lower(entry.method) \in HttpMethods
               /\ HasIdParameter(entry.path)
            THEN /\ Cardinality(BolaFindingsOf(entry)) = 1
                 /\ \A i \in BolaFindingsOf(entry) :
                      /\ static_findings[i].cwe_id = <<"CWE-", "639">>
                      /\ static_findings[i].owasp_category
                           = <<"API1:2023", " - ", "Broken Object Level Authorization">>
                      /\ static_findings[i].severity
                           = IF EffectiveSecurity(entry) = << >> THEN "HIGH" ELSE "MEDIUM"
            ELSE BolaFindingsOf(entry) = {}
    /\ \A i \in DOMAIN static_findings :
        static_findings[i].type = "BOLA"
            => \E n \in 1..cursor : i \in BolaFindingsOf(openapi.operations[n])

\* GET /users/{userId} without any security was reported HIGH, and after it an
\* operation with a security requirement on another ID path MEDIUM.
C20_Witness ==
    /\ cursor = 2
    /\ openapi.security = << >>
    /\ openapi.operations[1]
         = [path |-> <<"/", "users", "/", "{", "user", "Id", "}">>,
            method |-> "get", operation |-> EmptyMap]
    /\ openapi.operations[2].operation = [security |-> << <<"basicAuth">> >>]
    /\ LET bola == SelectSeq(static_findings, LAMBDA f : f.type = "BOLA")
       IN  /\ Len(bola) = 2
           /\ bola[1].severity = "HIGH"
           /\ bola[1].method = "GET"
           /\ bola[2].severity = "MEDIUM"

\* The findings of a type reported for an entry.
FindingsOf(entry, type) ==
    { i \in DOMAIN static_findings :
        /\ static_findings[i].type = type
        /\ static_findings[i].endpoint = entry.path
        /\ static_findings[i].method = Upper(entry.method) }

\* C21: when scan() has returned for a document that declares a security
\* scheme of type apiKey with in: query, its findings hold an APIKEY_IN_QUERY
\* finding with severity MEDIUM and CWE-598.
C21_ApiKeyInQueryReported ==
    ( /\ static_done
      /\ \E n \in DOMAIN openapi.schemes :
            openapi.schemes[n].type = "apiKey" /\ openapi.schemes[n].in = "query" )
    => \E i \in DOMAIN static_findings :
          /\ static_findings[i].type = "APIKEY_IN_QUERY"
          /\ static_findings[i].severity = "MEDIUM"
          /\ static_findings[i].cwe_id = <<"CWE-", "598">>

\* C22: _endpoint_has_security is true exactly when the operation has a
\* non-empty security list of its own, or has no security key while the global
\* list is non-empty; and an operation with security: [] that scan() has
\* handled has an AUTH_MISSING finding and no WEAK_AUTH or APIKEY_IN_QUERY
\* finding, whatever the global security is.
C22_OperationSecurityOverrides ==
    \A n \in DOMAIN openapi.operations :
        LET entry == openapi.operations[n]
            op == entry.operation
        IN  /\ _endpoint_has_security(op, openapi.security)
                <=> \/ "security" \in DOMAIN op /\ op["security"] # << >>
                    \/ "security" \notin DOMAIN op /\ openapi.security # << >>
            /\ op = [security |-> << >>]
                => ~_endpoint_has_security(op, openapi.security)
            /\ ( /\ n <= cursor
                 /\ Lower(entry.method) \in HttpMethods
                 /\ op = [security |-> << >>] )
               => /\ Cardinality(FindingsOf(entry, "AUTH_MISSING")) = 1
                  /\ FindingsOf(entry, "WEAK_AUTH") = {}
                  /\ FindingsOf(entry, "APIKEY_IN_QUERY") = {}

\* An operation with security: [] was handled in a document whose global
\* security names an API key passed in the query string.
C22_Witness ==
    /\ cursor >= 1
    /\ openapi.security = << <<"apiKeyAuth">> >>
    /\ "apiKeyAuth" \in DOMAIN openapi.schemes
    /\ openapi.schemes["apiKeyAuth"].in = "query"
    /\ openapi.operations[1].operation = [security |-> << >>]
    /\ openapi.operations[1].method = "POST"
    /\ FindingsOf(openapi.operations[1], "AUTH_MISSING") # {}

\* Some finding of the result is at or above --fail-on.
AtOrAboveFailOn ==
    \E i \in DOMAIN agent_result.findings :
        _severity_rank(agent_result.findings[i].severity)
            >= _severity_rank(Upper(fail_on))

\* C23: the scan command exits 0 only when the scan succeeded and no finding
\* is at or above --fail-on; it exits 1 when the scan failed or some finding
\* is at or above --fail-on, 130 on a user interrupt; and the outcome of the
\* upload has no part in the code.
C23_ExitCode ==
    agent_pc = "exited" =>
        /\ exit_code = 0
            => agent_result.status = "COMPLETED" /\ ~AtOrAboveFailOn
        /\ ( \/ agent_result.status \in {"FAILED", "Exception"}
             \/ AtOrAboveFailOn )
            => exit_code = 1
        /\ agent_result.status = "KeyboardInterrupt" => exit_code = 130

\* C24: once max_duration has elapsed in the wait for the active scan, the
\* next thing scan() does is issue ascan/stop, never another wait; and a
\* scan() that stopped the active scan and met no error has then collected
\* the alerts and returned all the alerts raised so far, converted.
C24_ActiveScanTimeout ==
    /\ [][ (zap_pc = "ascan_wait" /\ zap_clock > MaxDuration)
            => /\ zap_calls' = Append(zap_calls, "ascan_stop")
               /\ zap_clock' = zap_clock ]_vars
    /\ []( zap_clock <= MaxDuration + 1 )
    /\ []( (zap_pc = "returned" /\ zap_scan_state = "stopped" /\ ~zap_error)
            => /\ Len(zap_calls) >= 2
               /\ SubSeq(zap_calls, Len(zap_calls) - 1, Len(zap_calls))
                    = <<"ascan_stop", "alerts">>
               /\ Len(zap_returned) = Len(zap_alerts)
               /\ \A i \in DOMAIN zap_alerts :
                    zap_returned[i].severity
                      = (IF zap_alerts[i] = "High" THEN "HIGH" ELSE "INFO") )

\* The active scan was stopped on the timeout and two alerts raised before
\* it came back as findings.
C24_Witness ==
    /\ zap_pc = "returned"
    /\ zap_scan_state = "stopped"
    /\ zap_clock = MaxDuration + 1
    /\ zap_alerts = <<"High", "Informational">>
    /\ Len(zap_returned) = 2

\* The place of each step in the order of scan().
StepRank(call) ==
    CASE call = "start_zap" -> 1
      [] call = "newSession" -> 2
      [] call = "configure_auth" -> 3
      [] call = "import_openapi" -> 4
      [] call = "include_context" -> 5
      [] call = "exclude_paths" -> 6
      [] call = "spider" -> 7
      [] call = "ajax_spider" -> 8
      [] call = "ascan" -> 9
      [] call = "ascan_stop" -> 10
      [] call = "alerts" -> 11
      [] OTHER -> 0

\* The steps a scan() with the configuration issues when none of them fails.
ExpectedSteps ==
    SelectSeq(<<"start_zap", "newSession", "configure_auth", "import_openapi",
                "include_context", "exclude_paths", "spider", "ajax_spider",
                "ascan", "alerts">>,
              LAMBDA call :
                /\ call = "configure_auth" => zap_config.auth # NULL
                /\ call = "import_openapi" => zap_config.spec
                /\ call = "ajax_spider" => zap_config.ajax_spider)

\* C30: the steps are issued one at a time in the order start daemon, new
\* session, configure auth (if any), import spec (if any), include context,
\* exclude paths, spider, ajax spider (if enabled), active scan, collect
\* alerts; a run without error issues all of them; alerts are collected only
\* after the active scan completed or was stopped; and when the daemon does
\* not start scan() returns [] with no later step issued.
C30_StepOrder ==
    /\ [][ \/ zap_calls' = zap_calls
           \/ \E call \in {"start_zap", "newSession", "configure_auth",
                           "import_openapi", "include_context", "exclude_paths",
                           "spider", "ajax_spider", "ascan", "ascan_stop", "alerts"} :
                 zap_calls' = Append(zap_calls, call) ]_vars
    /\ []( /\ \A i, j \in DOMAIN zap_calls :
                i < j => StepRank(zap_calls[i]) < StepRank(zap_calls[j])
           /\ \A i \in DOMAIN zap_calls : StepRank(zap_calls[i]) > 0
           /\ \A i \in DOMAIN zap_calls :
                /\ zap_calls[i] = "configure_auth" => zap_config.auth # NULL
                /\ zap_calls[i] = "import_openapi" => zap_config.spec
                /\ zap_calls[i] = "ajax_spider" => zap_config.ajax_spider
                /\ zap_calls[i] = "alerts"
                     => zap_scan_state \in {"completed", "stopped"}
           /\ (zap_pc = "returned" /\ ~zap_error)
                => SelectSeq(zap_calls, LAMBDA call : call # "ascan_stop")
                     = ExpectedSteps
           /\ (zap_pc = "returned" /\ zap_error /\ zap_calls = <<"start_zap">>)
                => zap_returned = << >> )
    /\ [][ (zap_pc = "start_zap" /\ zap_pc' = "returned")
            => (zap_returned' = << >> /\ zap_calls' = <<"start_zap">>) ]_vars

\* A run with an auth dict, a spec and the Ajax spider went through every step
\* and returned.
C30_Witness ==
    /\ zap_pc = "returned"
    /\ ~zap_error
    /\ zap_config = [auth |-> "dict", spec |-> TRUE, ajax_spider |-> TRUE]
    /\ zap_calls = <<"start_zap", "newSession", "configure_auth", "import_openapi",
                     "include_context", "exclude_paths", "spider", "ajax_spider",
                     "ascan", "alerts">>

\* C25: every scan() that returned COMPLETED has notified GENERATING_REPORT
\* after ANALYZING and before COMPLETED.
C25_ReportStatusNotified ==
    result.status = "COMPLETED" =>
        \E i, j, k \in DOMAIN status_log :
            /\ i < j /\ j < k
            /\ status_log[i][1] = "ANALYZING"
            /\ status_log[j][1] = "GENERATING_REPORT"
            /\ status_log[k][1] = "COMPLETED"

\* The adapter's scan got as far as building its command.
AdapterRan ==
    /\ adapter_pc = "returned"
    /\ ~(adapter_config.engine = "schemathesis" /\ ~adapter_config.spec)

\* C26: an adapter that ran with an auth context has added the context's
\* headers to its command and has gone on to launch its tool: it did not end
\* in an exception raised while the context was applied, and when the tool
\* was not started the cause is the launch itself.
C26_AuthContextApplied ==
    (AdapterRan /\ adapter_config.auth # NULL)
        => /\ auth_applied
           /\ adapter_failure # "AttributeError"
           /\ tool_process = "none" => adapter_failure = "FileNotFoundError"

\* C28: when the adapter returns after its subprocess timeout fired, the
\* tool's process is no longer running.
C28_ToolTerminatedOnTimeout ==
    (adapter_pc = "returned" /\ adapter_failure = "TimeoutError")
        => tool_process # "running"

\* C29: when the adapter's scan has returned, on whatever path, the temporary
\* results file it created no longer exists.
C29_TempFileRemoved ==
    adapter_pc = "returned" => ~temp_file

\* The order in which scan() may call the engines.
EngineOrder == <<"nuclei", "schemathesis", "zap">>

\* The position of an engine in EngineOrder.
OrderOf(engine) == CHOOSE i \in DOMAIN EngineOrder : EngineOrder[i] = engine

\* C27: the engines of one scan run one after another in the order template
\* scanner, fuzzer, DAST: a scan is called only while no other engine's scan
\* is in flight, so at most one is in flight at any time, and the calls are
\* made in that order.
C27_EnginesSequential ==
    /\ [][in_flight' # in_flight /\ in_flight' \ in_flight # {}
            => in_flight = {}]_vars
    /\ [](/\ Cardinality(in_flight) <= 1
          /\ \A i, j \in DOMAIN invoked :
                i < j => OrderOf(invoked[i]) < OrderOf(invoked[j]))

\* The DAST scan is in flight after the template scan and the fuzzer returned.
C27_Witness ==
    /\ in_flight = {"zap"}
    /\ invoked = <<"nuclei", "schemathesis", "zap">>
    /\ engines_used = <<"nuclei", "schemathesis">>

\* C31: a worker holds exactly one open connection while process_scan runs a
\* job, and none once process_scan has been left, by return or by exception.
C31_ConnectionClosed ==
    \A w \in Workers :
        /\ pc[w] \in {"processing", "completing", "notify", "failing"}
              => conn[w] = "open"
        /\ pc[w] \in {"idle", "popped", "stopped"} => conn[w] = "none"

\* C32: Finding rows are committed only by the step that commits their scan
\* as COMPLETED, so no committed state holds a Finding row of a scan that is
\* QUEUED, PROCESSING or FAILED.
C32_FindingsCommittedWithCompleted ==
    /\ [][\A i \in DOMAIN findingRows' :
            i > Len(findingRows) =>
                /\ scanRows[findingRows'[i].scanId].status = "PROCESSING"
                /\ scanRows'[findingRows'[i].scanId].status = "COMPLETED"]_vars
    /\ [](\A i \in DOMAIN findingRows :
            scanRows[findingRows[i].scanId].status = "COMPLETED")

\* C33: a step of process_scan leaves every committed Finding row as it is,
\* adds only rows tagged with the scan of the worker that takes the step, and
\* changes no Scan row but that worker's own, of which it changes the status
\* only.
C33_AppendOnly ==
    [][nTriage' = nTriage =>
         /\ Len(findingRows') >= Len(findingRows)
         /\ \A i \in DOMAIN findingRows : findingRows'[i] = findingRows[i]
         /\ \A i \in DOMAIN findingRows' :
               i > Len(findingRows) =>
                  \E w \in Workers : /\ pc[w] = "completing"
                                     /\ pc'[w] = "notify"
                                     /\ findingRows'[i].scanId = job[w].scanId
         /\ \A s \in Scans :
               scanRows'[s] # scanRows[s] =>
                  /\ \E w \in Workers : pc'[w] # pc[w] /\ job[w].scanId = s
                  /\ scanRows'[s] = [scanRows[s] EXCEPT !.status = scanRows'[s].status]]_vars

\* A worker is about to commit rows for a scan while the table already holds
\* a triaged row with the same natural key, committed by a scan of the same
\* project and environment after this worker had read its state map.
C33_Witness ==
    \E w \in Workers :
        /\ pc[w] = "completing"
        /\ previous_findings[w] = EmptyMap
        /\ \E i \in DOMAIN pending[w], j \in DOMAIN findingRows :
              /\ NaturalKey(findingRows[j].finding) = NaturalKey(pending[w][i].finding)
              /\ findingRows[j].scanId # job[w].scanId
              /\ scanRows[findingRows[j].scanId].projectId
                    = scanRows[job[w].scanId].projectId
              /\ scanRows[job[w].scanId].projectId # NULL
              /\ scanRows[findingRows[j].scanId].environment
                    = scanRows[job[w].scanId].environment
              /\ findingRows[j].status = "FIXED"

\* Worker w is between popping a job and the return of process_scan.
InProcessScan(w) == pc[w] \in {"popped", "processing", "completing", "notify", "failing"}

\* C34: a message leaves the queue in a step of exactly one worker, which was
\* idle and takes the message as its job; a worker's job does not change
\* while process_scan runs; and the Scan row and Finding rows of a scan are
\* written by one worker only: no two workers hold jobs of the same scan.
C34_OneWorkerPerJob ==
    /\ [][/\ queue' # queue /\ Len(queue') < Len(queue) =>
                /\ queue' = Tail(queue)
                /\ \E w \in Workers :
                      /\ pc[w] = "idle"
                      /\ pc'[w] # "idle" => job'[w] = Head(queue)
                      /\ \A v \in Workers \ {w} : pc'[v] = pc[v] /\ job'[v] = job[v]
          /\ \A w \in Workers :
                InProcessScan(w) /\ job'[w] # job[w] => ~InProcessScan(w)']_vars
    /\ [](\A w, v \in Workers :
            w # v /\ InProcessScan(w) /\ InProcessScan(v)
                => job[w].scanId # job[v].scanId)

\* The (type, endpoint, method, parameter, severity) tuples of a list.
SeverityTuples(fs) ==
    { <<fs[i].type, fs[i].endpoint, fs[i].method, fs[i].parameter, fs[i].severity>> :
        i \in DOMAIN fs }

\* The input list rearranged by a permutation of its positions.
Rearranged(fs, perm) == [i \in DOMAIN fs |-> fs[perm[i]]]

\* C35: _deduplicate_findings yields the same set of (type, endpoint, method,
\* parameter, severity) tuples for every rearrangement of its input, and
\* applied to its own output returns that output.
C35_DedupOrderInsensitive ==
    deduplicated =>
        /\ \A perm \in Permutations(DOMAIN dedupInput) :
              SeverityTuples(_deduplicate_findings(Rearranged(dedupInput, perm)))
                 = SeverityTuples(unique)
        /\ _deduplicate_findings(unique) = unique

\* Two findings of one key, the later of higher severity, followed by a
\* finding of another key: the reversed input gives another list, with the
\* same tuples.
C35_Witness ==
    /\ deduplicated
    /\ Len(dedupInput) = 3
    /\ DedupKey(dedupInput[1]) = DedupKey(dedupInput[2])
    /\ DedupKey(dedupInput[1]) # DedupKey(dedupInput[3])
    /\ _severity_rank(dedupInput[1].severity) < _severity_rank(dedupInput[2].severity)
    /\ Len(unique) = 2
    /\ _deduplicate_findings(<<dedupInput[3], dedupInput[2], dedupInput[1]>>) # unique

TerminalStates == {"COMPLETED", "FAILED"}

\* scan() can go on: one of its steps is enabled (for an awaited engine, its
\* return without findings; for the analysis, which has no other condition,
\* its position).
ScanCanStep ==
    \/ ENABLED (\E authenticated \in BOOLEAN : Initialize(authenticated))
    \/ ENABLED QuickCall
    \/ ENABLED (\E failed \in BOOLEAN : QuickScan(<< >>, failed))
    \/ ENABLED FuzzCall
    \/ ENABLED (\E failed \in BOOLEAN : FuzzScan(<< >>, failed))
    \/ ENABLED DastCall
    \/ ENABLED (\E failed \in BOOLEAN : DastScan(<< >>, failed))
    \/ phase = "analyze"

C37_OneRowPerNaturalKey ==
    \A w \in Workers :
        \A i, j \in DOMAIN pending[w] :
            NaturalKey(pending[w][i].finding) = NaturalKey(pending[w][j].finding)
                => i = j

\* C38: ZAPEngine.scan always eventually returns as long as the proxy keeps
\* answering: every run of scan() reaches its return, also when the spider's
\* status never reaches 100 or the Ajax spider never reports "stopped".
C38_ZapScanReturns == <>(zap_pc = "returned")

\* C39: for every key (type, endpoint, method, parameter), the severity the
\* final ScanResult reports is the highest severity rank among all findings
\* any engine parsed for that key, the findings the fuzzer adapter drops in
\* its own first-seen deduplication included.
C39_FinalSeverityIsMax ==
    (phase = "returned" /\ result.status = "COMPLETED") =>
        \A i \in DOMAIN parsed_findings :
            \E j \in DOMAIN result.findings :
                /\ DedupKey(result.findings[j]) = DedupKey(parsed_findings[i])
                /\ _severity_rank(result.findings[j].severity)
                      >= _severity_rank(parsed_findings[i].severity)

====
